---- MODULE Spec2Model ----
(***************************************************************************)
(* A model of codeflash/code_utils/code_extractor.py: the merge of global  *)
(* statements and assignments (add_global_assignments), the reconciliation *)
(* of imports (add_needed_imports_from_module) and the extraction of a     *)
(* function or of methods of a class (get_code).                           *)
(*                                                                         *)
(* Source text is a sequence of physical lines, each with its indentation; *)
(* a parsed module is a sequence of statements.  ParseModule and Code are  *)
(* the conversions between the two.                                        *)
(***************************************************************************)
EXTENDS Integers, Sequences, FiniteSets, TLC

VARIABLES
    pc,                 \* position in the operation being run
    src_module_code,    \* add_global_assignments: text of the new file
    dst_module_code,    \* add_global_assignments: text of the destination (reassigned at line 281)
    dst_input,          \* the destination text as passed by the caller
    global_statements,  \* non_assignment_global_statements (line 268)
    last_import_line,   \* last_import_line (line 271)
    new_assignments,    \* new_collector.assignments (line 288)
    new_order,          \* new_collector.assignment_order (line 288)
    ret,                \* the returned text, once pc = "done"
    functions_to_optimize,      \* get_code: the requested declarations
    source_code,                \* get_code: the file at file_path
    class_skeleton,             \* get_code: class_skeleton (line 384)
    contextual_dunder_methods,  \* get_code: contextual_dunder_methods (line 385)
    target_code,                \* get_code: target_code (line 386), as line numbers
    names_left,                 \* get_code: what is left of qualified_name_parts_list
    get_code_ret,               \* get_code: the returned pair, once pc = "done"
    extract_code_ret,           \* extract_code: the returned pair, once pc = "extracted"
    src_imports_code,   \* add_needed_imports_from_module: src_module_code
    dst_imports_code,   \* add_needed_imports_from_module: dst_module_code
    helper_functions,   \* add_needed_imports_from_module: names of helper_functions
    helper_functions_fqn,  \* add_needed_imports_from_module: helper_functions_fqn
    dst_module_name,    \* dst_module_and_package.name (line 313)
    gatherer,           \* the imports gathered from the new file (line 327)
    dst_context,        \* the additions and removals requested on dst_context
    imports_ret,        \* add_needed_imports_from_module: the returned text
    module_code,        \* delete___future___aliased_imports: the text passed by the caller
    future_ret,         \* delete___future___aliased_imports: the text of the latest return
    future_prev,        \* the text passed to the latest call
    future_calls,       \* how many calls were made, each on the text the call before returned
    scan_source,        \* find_preexisting_objects: source_code
    preexisting_objects, \* find_preexisting_objects: the returned set, once pc = "scanned"
    invocations,        \* interleaved invocations: the operation and the arguments of each
    inv_pc,             \* interleaved invocations: the position of each
    inv_ret,            \* interleaved invocations: what each returned
    frames,             \* the objects the invocations construct, by the invocation that made them
    interleaved,        \* whether an invocation took a step while another was under way
    walk_visitor,       \* the walk of one visitor: "collector" or "transformer"
    walk_events,        \* the visit_ and leave_ calls the walk has still to make
    walk_st,            \* the fields of the visitor (its two counters among them)
    walk_new,           \* new_assignments of the transformer
    walk_open,          \* the compound statements the walk is inside of, outermost first
    walk_log,           \* the assignments met so far, each with walk_open and what was done
    pr_number,          \* check_create_pr: what env_utils.get_pr_number() returns
    repo_found,         \* check_create_pr: whether git.Repo finds a repository
    original_code,      \* check_create_pr: the paths of original_code, each with what is_zero_diff returns for it
    push_succeeds,      \* check_create_pr: what check_and_push_branch returns
    branch_pushed,      \* check_create_pr: whether check_and_push_branch was called and returned True
    build_file_changes, \* check_create_pr: the paths of build_file_changes
    api_requests,       \* the requests made through cfapi, in order
    perf_counter_calls, \* the deterministic patches: perf_counter_calls
    call_log            \* the calls made to the patched functions, each with what it did

mergeVars == <<src_module_code, dst_module_code, dst_input, global_statements,
               last_import_line, new_assignments, new_order, ret>>

extractVars == <<functions_to_optimize, source_code, class_skeleton,
                 contextual_dunder_methods, target_code, names_left, get_code_ret,
                 extract_code_ret>>

importVars == <<src_imports_code, dst_imports_code, helper_functions,
                helper_functions_fqn, dst_module_name, gatherer, dst_context,
                imports_ret>>

futureVars == <<module_code, future_ret, future_prev, future_calls>>

scanVars == <<scan_source, preexisting_objects>>

invocationVars == <<invocations, inv_pc, inv_ret, frames, interleaved>>

walkVars == <<walk_visitor, walk_events, walk_st, walk_new, walk_open, walk_log>>

prVars == <<pr_number, repo_found, original_code, push_succeeds, branch_pushed,
            build_file_changes, api_requests>>

\* the state of the operations specified after add_needed_imports_from_module
patchVars == <<perf_counter_calls, call_log>>

laterVars == <<futureVars, scanVars, invocationVars, walkVars, prVars, patchVars>>

\* what delete___future___aliased_imports leaves alone
notFutureVars == <<mergeVars, extractVars, importVars, scanVars, invocationVars, walkVars, prVars, patchVars>>

\* what find_preexisting_objects leaves alone
notScanVars == <<mergeVars, extractVars, importVars, futureVars, invocationVars, walkVars, prVars, patchVars>>

\* what the interleaved invocations leave alone
notInvocationVars == <<mergeVars, extractVars, importVars, futureVars, scanVars, walkVars, prVars, patchVars>>

\* what check_create_pr leaves alone
notPrVars == <<mergeVars, extractVars, importVars, futureVars, scanVars, invocationVars,
               walkVars, patchVars>>

\* what the patched functions leave alone
notPatchVars == <<mergeVars, extractVars, importVars, futureVars, scanVars, invocationVars,
                  walkVars, prVars>>

\* what the walk of a visitor leaves alone
notWalkVars == <<mergeVars, extractVars, importVars, futureVars, scanVars, invocationVars, prVars, patchVars>>

vars == <<pc, mergeVars, extractVars, importVars, laterVars>>

-----------------------------------------------------------------------------
(* Bounds of the model *)

\* the most statements at the top level of a destination file
MaxDstLen == 2
\* the most statements at the top level of a new file
MaxSrcLen == 2
\* the most statements in the body of a class
MaxMembers == 3
\* the most entries of one import statement
MaxEntries == 2
\* the most statements of a text given to delete___future___aliased_imports
MaxFutureLen == 2
\* the most calls of delete___future___aliased_imports made in a row
MaxCalls == 2
\* the most statements at the top level of a file given to find_preexisting_objects
MaxScanLen == 2
\* the most statements at the top level of a module a visitor walks
MaxWalkLen == 2
\* the most files of original_code given to check_create_pr
MaxFiles == 2
\* the most calls made to the patched functions
MaxPatchedCalls == 3
\* the most bytes asked of os.urandom
MaxBytes == 2
MaxImports == 2

-----------------------------------------------------------------------------
(* Syntax: small statements, statements, text *)

Names == {"x", "y"}

\* cst.Import / cst.ImportFrom
Import(i) == [t |-> "import", targets |-> <<>>, val |-> i]
\* cst.Assign: targets are names, or "o.a" for a target that is no cst.Name
Assign(tgts, v) == [t |-> "assign", targets |-> tgts, val |-> v]
\* any other small statement (an expression, a call, ...)
Expr(e) == [t |-> "expr", targets |-> <<>>, val |-> e]

\* cst.SimpleStatementLine: small statements, and its leading empty lines
Line(body, lead) == [k |-> "line", body |-> body, orelse |-> <<>>, lead |-> lead]
\* a compound statement: FunctionDef "def", ClassDef "class", If "if" (with
\* its Else in orelse), For/While/With/Try "for"
Block(k, body, orelse) == [k |-> k, body |-> body, orelse |-> orelse, lead |-> 0]
\* the cst.Module nodes ImportInserter.leave_SimpleStatementLine returns
Wrapper(body) == [k |-> "module", body |-> body, orelse |-> <<>>, lead |-> 0]

IsName(tg) == tg \in Names

\* physical lines of a text
TBlank == [ind |-> 0, t |-> "blank", k |-> "", body |-> <<>>]
TSimple(ind, body) == [ind |-> ind, t |-> "simple", k |-> "", body |-> body]
THead(ind, k) == [ind |-> ind, t |-> "head", k |-> k, body |-> <<>>]
\* a line that is no valid Python
TBad == [ind |-> 0, t |-> "bad", k |-> "", body |-> <<>>]

RECURSIVE Blanks(_)
Blanks(n) == IF n = 0 THEN <<>> ELSE <<TBlank>> \o Blanks(n - 1)

\* Module.code: the text of a sequence of statements at indentation ind. A
\* nested cst.Module prints its body at the current indentation.
RECURSIVE Code(_, _)
Code(stmts, ind) ==
    IF stmts = <<>> THEN <<>>
    ELSE LET s == Head(stmts)
             own == IF s.k = "line"
                        THEN Blanks(s.lead) \o <<TSimple(ind, s.body)>>
                    ELSE IF s.k = "module"
                        THEN Code(s.body, ind)
                    ELSE Blanks(s.lead) \o <<THead(ind, s.k)>> \o Code(s.body, ind + 1)
                         \o (IF s.orelse = <<>> THEN <<>>
                             ELSE <<THead(ind, "else")>> \o Code(s.orelse, ind + 1))
         IN own \o Code(Tail(stmts), ind)

ParseFail == [ok |-> FALSE, stmts |-> <<>>, next |-> 0]

\* cst.parse_module on the statements at indentation ind from line i on;
\* lead counts the empty lines read since the last statement
RECURSIVE ParseStmts(_, _, _, _)
ParseStmts(text, i, ind, lead) ==
    IF i > Len(text) THEN [ok |-> TRUE, stmts |-> <<>>, next |-> i]
    ELSE LET l == text[i] IN
        IF l.t = "bad" THEN ParseFail
        ELSE IF l.t = "blank" THEN ParseStmts(text, i + 1, ind, lead + 1)
        ELSE IF l.ind < ind THEN [ok |-> TRUE, stmts |-> <<>>, next |-> i - lead]
        ELSE IF l.ind > ind THEN ParseFail
        ELSE IF l.t = "simple" THEN
            LET rest == ParseStmts(text, i + 1, ind, 0) IN
            IF rest.ok
                THEN [ok |-> TRUE, stmts |-> <<Line(l.body, lead)>> \o rest.stmts,
                      next |-> rest.next]
                ELSE ParseFail
        ELSE IF l.k = "else" THEN ParseFail
        ELSE
            LET b == ParseStmts(text, i + 1, ind + 1, 0)
                hasElse == /\ b.ok
                           /\ l.k = "if"
                           /\ b.next <= Len(text)
                           /\ text[b.next] = THead(ind, "else")
                e == IF hasElse THEN ParseStmts(text, b.next + 1, ind + 1, 0)
                     ELSE [ok |-> b.ok, stmts |-> <<>>, next |-> b.next]
                rest == ParseStmts(text, e.next, ind, 0)
            IN  IF ~b.ok \/ b.stmts = <<>> \/ ~e.ok \/ (hasElse /\ e.stmts = <<>>)
                    THEN ParseFail
                ELSE IF ~rest.ok THEN ParseFail
                ELSE [ok |-> TRUE,
                      stmts |-> <<[k |-> l.k, body |-> b.stmts, orelse |-> e.stmts,
                                   lead |-> lead]>> \o rest.stmts,
                      next |-> rest.next]

\* cst.parse_module: ok is FALSE where libcst raises ParserSyntaxError
ParseModule(text) ==
    LET r == ParseStmts(text, 1, 0, 0) IN
    IF r.ok /\ r.next > Len(text) THEN [ok |-> TRUE, body |-> r.stmts]
    ELSE [ok |-> FALSE, body |-> <<>>]

-----------------------------------------------------------------------------
(* GlobalStatementCollector, lines 150-180 *)

\* visit_SimpleStatementLine, lines 174-180
CollectLine(node, st) ==
    IF ~st.in_function_or_class
       /\ \E j \in 1..Len(node.body) : node.body[j].t \notin {"import", "assign"}
        THEN [st EXCEPT !.global_statements = Append(@, node)]
        ELSE st

\* the walk of a GlobalStatementCollector: visit_ClassDef and
\* visit_FunctionDef return False, so their children are not visited, and
\* the leave_ method resets the flag
RECURSIVE CollectStatements(_, _)
CollectStatements(stmts, st) ==
    IF stmts = <<>> THEN st
    ELSE LET s == Head(stmts)
             st1 == IF s.k \in {"def", "class"}
                        THEN [[st EXCEPT !.in_function_or_class = TRUE]
                                  EXCEPT !.in_function_or_class = FALSE]
                    ELSE IF s.k = "line" THEN CollectLine(s, st)
                    ELSE CollectStatements(s.orelse, CollectStatements(s.body, st))
         IN CollectStatements(Tail(stmts), st1)

\* extract_global_statements, lines 230-235 (on a parsed module)
GlobalStatementsOf(body) ==
    CollectStatements(body, [global_statements |-> <<>>,
                             in_function_or_class |-> FALSE]).global_statements

-----------------------------------------------------------------------------
(* LastImportFinder, lines 183-195 *)

HasImport(node) == \E j \in 1..Len(node.body) : node.body[j].t = "import"

\* visit_SimpleStatementLine, lines 191-195
FinderLine(node, st) ==
    LET c == st.current_line + 1 IN
    [current_line |-> c,
     last_import_line |-> IF HasImport(node) THEN c ELSE st.last_import_line]

\* the walk of a LastImportFinder: every SimpleStatementLine of the module,
\* at any depth
RECURSIVE FindImports(_, _)
FindImports(stmts, st) ==
    IF stmts = <<>> THEN st
    ELSE LET s == Head(stmts)
             st1 == IF s.k = "line" THEN FinderLine(s, st)
                    ELSE FindImports(s.orelse, FindImports(s.body, st))
         IN FindImports(Tail(stmts), st1)

\* find_last_import_line, lines 238-243 (on a parsed module)
LastImportLineOf(body) ==
    FindImports(body, [current_line |-> 0, last_import_line |-> 0]).last_import_line

-----------------------------------------------------------------------------
(* ImportInserter, lines 198-227 *)

\* leave_SimpleStatementLine putting the statements before the line of the
\* last import instead of after it
InserterLineBefore(node, st, stmts, last) ==
    LET c == st.current_line + 1 IN
    IF c = last /\ ~st.inserted
        THEN [node |-> Wrapper(stmts \o <<node>>),
              st |-> [current_line |-> c, inserted |-> TRUE]]
        ELSE [node |-> Wrapper(<<node>>),
              st |-> [current_line |-> c, inserted |-> st.inserted]]

\* leave_SimpleStatementLine, lines 208-218: the node is replaced by a
\* cst.Module holding it, followed by the statements when this is the line
\* of the last import
InserterLine(node, st, stmts, last) ==
    LET c == st.current_line + 1 IN
    IF c = last /\ ~st.inserted
        THEN [node |-> Wrapper(<<node>> \o stmts),
              st |-> [current_line |-> c, inserted |-> TRUE]]
        ELSE [node |-> Wrapper(<<node>>),
              st |-> [current_line |-> c, inserted |-> st.inserted]]

\* the walk of an ImportInserter over a sequence of statements
RECURSIVE InsertWalk(_, _, _, _)
InsertWalk(body, st, stmts, last) ==
    IF body = <<>> THEN [body |-> <<>>, st |-> st]
    ELSE LET s == Head(body)
             one == IF s.k = "line" THEN InserterLine(s, st, stmts, last)
                    ELSE LET b == InsertWalk(s.body, st, stmts, last)
                             e == InsertWalk(s.orelse, b.st, stmts, last)
                         IN [node |-> [s EXCEPT !.body = b.body, !.orelse = e.body],
                             st |-> e.st]
             rest == InsertWalk(Tail(body), one.st, stmts, last)
         IN [body |-> <<one.node>> \o rest.body, st |-> rest.st]

\* leave_Module, lines 220-227
InserterModule(w, stmts, last) ==
    IF last = 0 /\ ~w.st.inserted THEN stmts \o w.body ELSE w.body

\* target_module.visit(ImportInserter(...)), lines 277-280
InsertStatementsInto(body, stmts, last) ==
    InserterModule(InsertWalk(body, [current_line |-> 0, inserted |-> FALSE],
                              stmts, last),
                   stmts, last)

-----------------------------------------------------------------------------
(* GlobalAssignmentCollector, lines 24-69 *)

\* visit_Assign keeping the first assignment of a name instead of the last
RECURSIVE RegisterTargetsFirstWins(_, _, _)
RegisterTargetsFirstWins(node, i, st) ==
    IF i > Len(node.targets) THEN st
    ELSE LET name == node.targets[i]
             st1 == IF IsName(name)
                        THEN [st EXCEPT
                                !.assignments = @ @@ (name :> node),
                                !.assignment_order =
                                    IF \E j \in 1..Len(@) : @[j] = name THEN @
                                    ELSE Append(@, name)]
                        ELSE st
         IN RegisterTargetsFirstWins(node, i + 1, st1)

\* the loop of visit_Assign over node.targets, lines 63-68
RECURSIVE RegisterTargets(_, _, _)
RegisterTargets(node, i, st) ==
    IF i > Len(node.targets) THEN st
    ELSE LET name == node.targets[i]
             st1 == IF IsName(name)
                        THEN [st EXCEPT
                                !.assignments = (name :> node) @@ @,
                                !.assignment_order =
                                    IF \E j \in 1..Len(@) : @[j] = name THEN @
                                    ELSE Append(@, name)]
                        ELSE st
         IN RegisterTargets(node, i + 1, st1)

\* visit_Assign, lines 60-69
CollectorAssign(node, st) ==
    IF st.scope_depth = 0 /\ st.if_else_depth = 0
        THEN RegisterTargets(node, 1, st)
        ELSE st

\* the small statements of a SimpleStatementLine, in order
RECURSIVE CollectorSmall(_, _, _)
CollectorSmall(body, j, st) ==
    IF j > Len(body) THEN st
    ELSE CollectorSmall(body, j + 1,
                        IF body[j].t = "assign" THEN CollectorAssign(body[j], st)
                        ELSE st)

\* the walk of a GlobalAssignmentCollector: visit_/leave_ of FunctionDef,
\* ClassDef (lines 35-47) and If (lines 49-54) move the two counters
RECURSIVE CollectAssignments(_, _)
CollectAssignments(stmts, st) ==
    IF stmts = <<>> THEN st
    ELSE LET s == Head(stmts)
             st1 ==
                IF s.k = "line" THEN CollectorSmall(s.body, 1, st)
                ELSE IF s.k \in {"def", "class"} THEN
                    LET in == CollectAssignments(s.body,
                                  [st EXCEPT !.scope_depth = @ + 1])
                    IN [in EXCEPT !.scope_depth = @ - 1]
                ELSE IF s.k = "if" THEN
                    LET in == CollectAssignments(s.orelse,
                                  CollectAssignments(s.body,
                                      [st EXCEPT !.if_else_depth = @ + 1]))
                    IN [in EXCEPT !.if_else_depth = @ - 1]
                ELSE CollectAssignments(s.orelse, CollectAssignments(s.body, st))
         IN CollectAssignments(Tail(stmts), st1)

\* self.assignments = {}, line 29
EmptyMap == [n \in {} |-> Expr(0)]

\* GlobalAssignmentCollector.__init__, lines 27-33, and new_module.visit, line 289
AssignmentsOf(body) ==
    CollectAssignments(body, [assignments |-> EmptyMap, assignment_order |-> <<>>,
                              scope_depth |-> 0, if_else_depth |-> 0])

-----------------------------------------------------------------------------
(* GlobalAssignmentTransformer, lines 72-147 *)

\* the loop of leave_Assign, lines 113-118: the first target that is a name
\* of new_assignments, or 0
RECURSIVE FirstNewTarget(_, _, _)
FirstNewTarget(targets, i, assignments) ==
    IF i > Len(targets) THEN 0
    ELSE IF IsName(targets[i]) /\ targets[i] \in DOMAIN assignments THEN i
    ELSE FirstNewTarget(targets, i + 1, assignments)

\* leave_Assign, lines 108-120
LeaveAssign(node, st, assignments) ==
    IF st.scope_depth > 0 \/ st.if_else_depth > 0
        THEN [node |-> node, st |-> st]
    ELSE LET i == FirstNewTarget(node.targets, 1, assignments) IN
        IF i = 0 THEN [node |-> node, st |-> st]
        ELSE [node |-> assignments[node.targets[i]],
              st |-> [st EXCEPT !.processed_assignments = @ \cup {node.targets[i]}]]

\* the small statements of a SimpleStatementLine, in order
RECURSIVE TransformSmall(_, _, _, _)
TransformSmall(body, j, st, assignments) ==
    IF j > Len(body) THEN [body |-> body, st |-> st]
    ELSE IF body[j].t = "assign" THEN
        LET r == LeaveAssign(body[j], st, assignments) IN
        TransformSmall([body EXCEPT ![j] = r.node], j + 1, r.st, assignments)
    ELSE TransformSmall(body, j + 1, st, assignments)

\* the walk of a GlobalAssignmentTransformer: visit_/leave_ of FunctionDef,
\* ClassDef (lines 83-95) and If (lines 97-102) move the two counters
RECURSIVE TransformWalk(_, _, _)
TransformWalk(stmts, st, assignments) ==
    IF stmts = <<>> THEN [body |-> <<>>, st |-> st]
    ELSE LET s == Head(stmts)
             one ==
                IF s.k = "line" THEN
                    LET r == TransformSmall(s.body, 1, st, assignments) IN
                    [node |-> [s EXCEPT !.body = r.body], st |-> r.st]
                ELSE
                    LET enter == IF s.k \in {"def", "class"}
                                     THEN [st EXCEPT !.scope_depth = @ + 1]
                                 ELSE IF s.k = "if"
                                     THEN [st EXCEPT !.if_else_depth = @ + 1]
                                 ELSE st
                        b == TransformWalk(s.body, enter, assignments)
                        e == TransformWalk(s.orelse, b.st, assignments)
                        leave == IF s.k \in {"def", "class"}
                                     THEN [e.st EXCEPT !.scope_depth = @ - 1]
                                 ELSE IF s.k = "if"
                                     THEN [e.st EXCEPT !.if_else_depth = @ - 1]
                                 ELSE e.st
                    IN [node |-> [s EXCEPT !.body = b.body, !.orelse = e.body],
                        st |-> leave]
             rest == TransformWalk(Tail(stmts), one.st, assignments)
         IN [body |-> <<one.node>> \o rest.body, st |-> rest.st]

\* assignments_to_append built in the reverse of new_assignment_order
RECURSIVE AssignmentsToAppendReversed(_, _, _)
AssignmentsToAppendReversed(order, processed, assignments) ==
    IF order = <<>> THEN <<>>
    ELSE AssignmentsToAppendReversed(Tail(order), processed, assignments)
         \o (IF Head(order) \notin processed /\ Head(order) \in DOMAIN assignments
                  THEN <<assignments[Head(order)]>> ELSE <<>>)

\* assignments_to_append, lines 127-131
RECURSIVE AssignmentsToAppend(_, _, _)
AssignmentsToAppend(order, processed, assignments) ==
    IF order = <<>> THEN <<>>
    ELSE (IF Head(order) \notin processed /\ Head(order) \in DOMAIN assignments
              THEN <<assignments[Head(order)]>> ELSE <<>>)
         \o AssignmentsToAppend(Tail(order), processed, assignments)

\* the statements appended at lines 140-145: each assignment in a
\* SimpleStatementLine of its own, with one leading EmptyLine
RECURSIVE AppendedLines(_)
AppendedLines(nodes) ==
    IF nodes = <<>> THEN <<>>
    ELSE <<Line(<<Head(nodes)>>, 1)>> \o AppendedLines(Tail(nodes))

\* leave_Module, lines 122-147. Lines 135-137 append a statement and pop it
\* again, which leaves new_statements as it was.
LeaveModule(body, processed, assignments, order) ==
    body \o AppendedLines(AssignmentsToAppend(order, processed, assignments))

\* original_module.visit(GlobalAssignmentTransformer(...)), lines 292-293
TransformAssignments(body, assignments, order) ==
    LET w == TransformWalk(body, [processed_assignments |-> {},
                                  scope_depth |-> 0, if_else_depth |-> 0],
                           assignments)
    IN LeaveModule(w.body, w.st.processed_assignments, assignments, order)

-----------------------------------------------------------------------------
(* add_global_assignments, lines 267-295 *)

\* get_code is not running
ExtractIdle ==
    /\ functions_to_optimize = <<>>
    /\ source_code = [ok |-> TRUE, items |-> <<>>]
    /\ class_skeleton = {}
    /\ contextual_dunder_methods = {}
    /\ target_code = <<>>
    /\ names_left = <<>>
    /\ get_code_ret = [none |-> TRUE, code |-> <<>>, dunders |-> {}]
    /\ extract_code_ret = [none |-> TRUE, code |-> <<>>, dunders |-> {}]

\* the text of a file as add_needed_imports_from_module sees it: whether it
\* parses, the blank lines it starts with, the imports it holds and the
\* imports its code uses
ImportsFile(ok, lead, imports, used) ==
    [ok |-> ok, lead |-> lead, imports |-> imports, used |-> used]

\* what GatherImportsVisitor holds before it has visited anything
EmptyGatherer ==
    [module_imports |-> {}, object_mapping |-> {}, module_aliases |-> {},
     alias_mapping |-> {}]

\* a context on which nothing was requested
EmptyContext == [add |-> {}, remove |-> {}]

\* add_needed_imports_from_module is not running
ImportsIdle ==
    /\ src_imports_code = ImportsFile(TRUE, 0, {}, {})
    /\ dst_imports_code = ImportsFile(TRUE, 0, {}, {})
    /\ helper_functions = {}
    /\ helper_functions_fqn = {}
    /\ dst_module_name = "dst"
    /\ gatherer = EmptyGatherer
    /\ dst_context = EmptyContext
    /\ imports_ret = ImportsFile(TRUE, 0, {}, {})

\* delete___future___aliased_imports is not running
FutureIdle ==
    /\ module_code = <<>>
    /\ future_ret = <<>>
    /\ future_prev = <<>>
    /\ future_calls = 0

\* find_preexisting_objects is not running
ScanIdle ==
    /\ scan_source = [ok |-> TRUE, body |-> <<>>]
    /\ preexisting_objects = {}

\* no invocations are interleaved
InvocationsIdle ==
    /\ invocations = <<>>
    /\ inv_pc = <<>>
    /\ inv_ret = <<>>
    /\ frames = <<>>
    /\ interleaved = FALSE

\* no visitor is walking
WalkIdle ==
    /\ walk_visitor = ""
    /\ walk_events = <<>>
    /\ walk_st = <<>>
    /\ walk_new = <<>>
    /\ walk_open = <<>>
    /\ walk_log = <<>>

\* the value None of an Optional[int]
None == [none |-> TRUE, n |-> 0]

\* an int as the value of an Optional[int]
Some(n) == [none |-> FALSE, n |-> n]

\* check_create_pr is not running
PrIdle ==
    /\ pr_number = None
    /\ repo_found = TRUE
    /\ original_code = {}
    /\ push_succeeds = FALSE
    /\ branch_pushed = FALSE
    /\ build_file_changes = {}
    /\ api_requests = <<>>

\* the patches are not set up
PatchesIdle ==
    /\ perf_counter_calls = 0
    /\ call_log = <<>>

\* none of the operations specified after add_needed_imports_from_module is running
LaterIdle ==
    /\ FutureIdle
    /\ ScanIdle
    /\ InvocationsIdle
    /\ WalkIdle
    /\ PrIdle
    /\ PatchesIdle

Seqs(S, n) == UNION {[1..m -> S] : m \in 0..n}

\* the statements a destination file is made of
DstStatements ==
    { Line(<<Import(1)>>, 0),
      Line(<<Assign(<<"x">>, 1)>>, 1),
      Line(<<Assign(<<"x", "y">>, 2)>>, 0),
      Block("def", <<Line(<<Import(2)>>, 0), Line(<<Assign(<<"x">>, 3)>>, 0)>>, <<>>),
      Block("for", <<Line(<<Assign(<<"y">>, 5)>>, 0),
                     Block("if", <<Line(<<Assign(<<"y">>, 4)>>, 0)>>,
                                 <<Line(<<Expr(4)>>, 0)>>)>>, <<>>) }

\* the statements a new file is made of
SrcStatements ==
    { Line(<<Import(3)>>, 0),
      Line(<<Assign(<<"x">>, 1)>>, 0),
      Line(<<Assign(<<"y">>, 6)>>, 0),
      Line(<<Assign(<<"x", "y">>, 2)>>, 0),
      Line(<<Expr(1)>>, 0),
      Line(<<Assign(<<"x">>, 9), Expr(3)>>, 0),
      Block("if", <<Line(<<Expr(4)>>, 0), Line(<<Assign(<<"y">>, 10)>>, 0)>>, <<>>),
      Block("class", <<Line(<<Expr(5)>>, 0), Line(<<Assign(<<"y">>, 11)>>, 0)>>, <<>>) }

\* the texts given to the operations: the code of a module, and the code of
\* a statement followed by a line that does not parse
Texts(stmts, n) ==
    { Code(m, 0) : m \in Seqs(stmts, n) }
    \cup { Code(<<st>>, 0) \o <<TBad>> : st \in stmts }

InitMerge ==
    /\ pc = "extract"
    /\ src_module_code \in Texts(SrcStatements, MaxSrcLen)
    /\ dst_module_code \in Texts(DstStatements, MaxDstLen)
    /\ dst_input = dst_module_code
    /\ global_statements = <<>>
    /\ last_import_line = 0
    /\ new_assignments = EmptyMap
    /\ new_order = <<>>
    /\ ret = <<>>
    /\ ExtractIdle
    /\ ImportsIdle
    /\ LaterIdle

\* a ParserSyntaxError leaves add_global_assignments: nothing catches it
Raise ==
    /\ pc' = "raised"
    /\ UNCHANGED <<src_module_code, dst_module_code, dst_input, global_statements,
                   last_import_line, new_assignments, new_order, ret, extractVars, importVars, laterVars>>

\* line 268: extract_global_statements(src_module_code)
ExtractGlobalStatements ==
    /\ pc = "extract"
    /\ LET m == ParseModule(src_module_code) IN
        IF ~m.ok THEN Raise
        ELSE /\ global_statements' = GlobalStatementsOf(m.body)
             /\ pc' = "find"
             /\ UNCHANGED <<src_module_code, dst_module_code, dst_input,
                            last_import_line, new_assignments, new_order, ret,
                            extractVars, importVars, laterVars>>

\* line 271: find_last_import_line(dst_module_code)
FindLastImportLine ==
    /\ pc = "find"
    /\ LET m == ParseModule(dst_module_code) IN
        IF ~m.ok THEN Raise
        ELSE /\ last_import_line' = LastImportLineOf(m.body)
             /\ pc' = "insert"
             /\ UNCHANGED <<src_module_code, dst_module_code, dst_input,
                            global_statements, new_assignments, new_order, ret,
                            extractVars, importVars, laterVars>>

\* lines 274-281: the ImportInserter runs on the parsed destination and
\* dst_module_code becomes the code of what it returns
InsertGlobalStatements ==
    /\ pc = "insert"
    /\ LET m == ParseModule(dst_module_code) IN
        IF ~m.ok THEN Raise
        ELSE /\ dst_module_code' =
                    Code(InsertStatementsInto(m.body, global_statements,
                                              last_import_line), 0)
             /\ pc' = "collect"
             /\ UNCHANGED <<src_module_code, dst_input, global_statements,
                            last_import_line, new_assignments, new_order, ret,
                            extractVars, importVars, laterVars>>

\* lines 284-289: both texts are parsed again and the assignments of the new
\* file are collected
CollectNewAssignments ==
    /\ pc = "collect"
    /\ LET o == ParseModule(dst_module_code)
           n == ParseModule(src_module_code)
       IN IF ~o.ok \/ ~n.ok THEN Raise
          ELSE LET c == AssignmentsOf(n.body) IN
               /\ new_assignments' = c.assignments
               /\ new_order' = c.assignment_order
               /\ pc' = "transform"
               /\ UNCHANGED <<src_module_code, dst_module_code, dst_input,
                              global_statements, last_import_line, ret,
                              extractVars, importVars, laterVars>>

\* lines 292-295: the GlobalAssignmentTransformer runs on original_module
\* (parsed at line 284) and its code is returned
TransformAndReturn ==
    /\ pc = "transform"
    /\ LET o == ParseModule(dst_module_code) IN
        /\ ret' = Code(TransformAssignments(o.body, new_assignments, new_order), 0)
        /\ pc' = "done"
        /\ UNCHANGED <<src_module_code, dst_module_code, dst_input,
                       global_statements, last_import_line, new_assignments,
                       new_order, extractVars, importVars, laterVars>>

NextMerge ==
    \/ ExtractGlobalStatements
    \/ FindLastImportLine
    \/ InsertGlobalStatements
    \/ CollectNewAssignments
    \/ TransformAndReturn

SpecMerge == InitMerge /\ [][NextMerge]_vars

-----------------------------------------------------------------------------
(* What the claims speak of *)

\* the small statements of a module in source order, each with whether it
\* lies outside every function body, class body and if/else block
RECURSIVE Flat(_, _)
Flat(stmts, glob) ==
    IF stmts = <<>> THEN <<>>
    ELSE LET s == Head(stmts)
             own == IF s.k = "line"
                        THEN [j \in 1..Len(s.body) |-> [s |-> s.body[j], global |-> glob]]
                    ELSE LET g == glob /\ s.k \notin {"def", "class", "if"}
                         IN Flat(s.body, g) \o Flat(s.orelse, g)
         IN own \o Flat(Tail(stmts), glob)

IsGlobalAssign(e) == e.global /\ e.s.t = "assign"

\* the assignments of a module outside every function, class and if/else
GlobalAssigns(stmts) == SelectSeq(Flat(stmts, TRUE), IsGlobalAssign)

NamesOf(node) == {node.targets[j] : j \in 1..Len(node.targets)} \cap Names

\* the names these assignments bind
GlobalNames(stmts) ==
    LET a == GlobalAssigns(stmts) IN UNION {NamesOf(a[i].s) : i \in 1..Len(a)}

\* the last of these assignments that binds name
LastGlobalAssign(stmts, name) ==
    LET a == GlobalAssigns(stmts)
        i == CHOOSE i \in 1..Len(a) :
                /\ name \in NamesOf(a[i].s)
                /\ \A j \in (i + 1)..Len(a) : name \notin NamesOf(a[j].s)
    IN a[i].s

\* the index of the first of these assignments that binds name
FirstIndex(stmts, name) ==
    LET a == GlobalAssigns(stmts) IN
    CHOOSE i \in 1..Len(a) :
        /\ name \in NamesOf(a[i].s)
        /\ \A j \in 1..(i - 1) : name \notin NamesOf(a[j].s)

\* the position of name among the targets of node
TargetIndex(node, name) ==
    CHOOSE j \in 1..Len(node.targets) :
        /\ node.targets[j] = name
        /\ \A h \in 1..(j - 1) : node.targets[h] # name

\* name a is bound before name b in the module
BoundBefore(stmts, a, b) ==
    LET ia == FirstIndex(stmts, a)
        ib == FirstIndex(stmts, b)
        n == GlobalAssigns(stmts)[ia].s
    IN ia < ib \/ (ia = ib /\ TargetIndex(n, a) < TargetIndex(n, b))

\* a set of names of the module as a sequence, in the order in which the
\* module first binds them
RECURSIVE InFirstAppearanceOrder(_, _)
InFirstAppearanceOrder(stmts, S) ==
    IF S = {} THEN <<>>
    ELSE LET f == CHOOSE a \in S : \A b \in S \ {a} : BoundBefore(stmts, a, b)
         IN <<f>> \o InFirstAppearanceOrder(stmts, S \ {f})

\* a is b with some elements left out
RECURSIVE IsSubseq(_, _)
IsSubseq(a, b) ==
    IF a = <<>> THEN TRUE
    ELSE IF b = <<>> THEN FALSE
    ELSE IF Head(a) = Head(b) THEN IsSubseq(Tail(a), Tail(b))
    ELSE IsSubseq(a, Tail(b))

\* the function bodies, class bodies and if/else blocks of a module that lie
\* in no other such block, in source order
RECURSIVE ProtectedBlocks(_)
ProtectedBlocks(stmts) ==
    IF stmts = <<>> THEN <<>>
    ELSE LET s == Head(stmts)
             own == IF s.k \in {"def", "class", "if"} THEN <<s>>
                    ELSE IF s.k = "line" THEN <<>>
                    ELSE ProtectedBlocks(s.body) \o ProtectedBlocks(s.orelse)
         IN own \o ProtectedBlocks(Tail(stmts))

\* the statement lines of a module outside every function body, class body
\* and if/else block that hold a statement other than an import and an
\* assignment
RECURSIVE FreeStatements(_)
FreeStatements(stmts) ==
    IF stmts = <<>> THEN <<>>
    ELSE LET s == Head(stmts)
             own == IF s.k \in {"def", "class", "if"} THEN <<>>
                    ELSE IF s.k = "line"
                        THEN IF \E j \in 1..Len(s.body) :
                                    s.body[j].t \notin {"import", "assign"}
                                 THEN <<s>> ELSE <<>>
                    ELSE FreeStatements(s.body) \o FreeStatements(s.orelse)
         IN own \o FreeStatements(Tail(stmts))

\* the physical line of the last import statement of a text, 0 without one
LastImportTextLine(text) ==
    LET I == {i \in 1..Len(text) :
                 \E j \in 1..Len(text[i].body) : text[i].body[j].t = "import"}
    IN IF I = {} THEN 0 ELSE CHOOSE i \in I : \A j \in I : j <= i

SrcOk == ParseModule(src_module_code).ok
DstOk == ParseModule(dst_input).ok
SrcBody == ParseModule(src_module_code).body
DstBody == ParseModule(dst_input).body
\* the destination as the binding pass finds it, and the result
PassBody == ParseModule(dst_module_code).body
RetBody == ParseModule(ret).body

-----------------------------------------------------------------------------
(* Claims on add_global_assignments *)

\* C1: whenever the new text or the destination text fails to parse, the
\* call does not raise and returns the destination text unchanged.
C1_ParseFailureReturnsDestination ==
    (pc \in {"done", "raised"} /\ (~SrcOk \/ ~DstOk))
        => (pc = "done" /\ ret = dst_input)

\* C4: the merge leaves every function body, class body and if/else block
\* of the destination as it was, wherever the imports of the destination are.
C4_BlocksUntouched ==
    pc = "done" => ProtectedBlocks(RetBody) = ProtectedBlocks(DstBody)

\* C5: the statements collected from the new file are exactly its statements
\* outside every function body, class body and if/else block that are
\* neither imports nor assignments.
C5_CollectedAreFreeStatements ==
    pc \in {"find", "insert", "collect", "transform", "done"}
        => global_statements = FreeStatements(SrcBody)

\* C6: the result has exactly as many top-level assignments as the
\* destination, plus one for each name of the new file that no top-level
\* assignment of the destination binds.
C6_NoDuplication ==
    pc = "done" =>
        Len(GlobalAssigns(RetBody)) =
            Len(GlobalAssigns(DstBody))
            + Cardinality(GlobalNames(SrcBody) \ GlobalNames(DstBody))

\* C7: every name a top-level assignment of the destination binds, each
\* target of a multi-target assignment included, and every name of the new
\* file's registry is bound by a top-level assignment of the result.
C7_NoDeclarationLost ==
    pc = "done" =>
        /\ GlobalNames(DstBody) \subseteq GlobalNames(RetBody)
        /\ GlobalNames(SrcBody) \subseteq GlobalNames(RetBody)

\* the top-level assignments among the small statements pre of the
\* destination, as the binding pass finds it, with a single target that is
\* one of names
MatchedSingle(pre, names) ==
    {i \in 1..Len(pre) :
        /\ IsGlobalAssign(pre[i])
        /\ Len(pre[i].s.targets) = 1
        /\ pre[i].s.targets[1] \in names}

\* C8: for every top-level assignment of the destination whose single target
\* is a name of the new file's registry, the result has at the same position
\* the new file's last top-level assignment to that name, and no statement is
\* appended for that name.
C8_ReplacedInPlace ==
    pc = "done" =>
        LET src == SrcBody
            passBody == PassBody
            retBody == RetBody
            pre == Flat(passBody, TRUE)
            post == Flat(retBody, TRUE)
            names == GlobalNames(src)
            matched == MatchedSingle(pre, names)
        IN /\ \A i \in matched :
                /\ i <= Len(post)
                /\ post[i].global
                /\ post[i].s = LastGlobalAssign(src, pre[i].s.targets[1])
           /\ Len(retBody) - Len(passBody) <=
                Cardinality(names \ {pre[i].s.targets[1] : i \in matched})

\* C8 happens: a destination assignment is replaced by the second of two
\* assignments the new file makes to its name
C8_Witness ==
    /\ pc = "done"
    /\ LET src == SrcBody
           pre == Flat(PassBody, TRUE)
           post == Flat(RetBody, TRUE)
           a == GlobalAssigns(src)
       IN \E i \in MatchedSingle(pre, GlobalNames(src)) :
            /\ post[i].s # pre[i].s
            /\ \E h \in 1..Len(a) :
                /\ pre[i].s.targets[1] \in NamesOf(a[h].s)
                /\ a[h].s # LastGlobalAssign(src, pre[i].s.targets[1])

\* the names of the new file's registry that no top-level assignment of the
\* destination binds, in the order of their first appearance in the new file
Unmatched(src, passBody) ==
    InFirstAppearanceOrder(src, GlobalNames(src) \ GlobalNames(passBody))

\* the statements the binding pass has added at the end of the module
Appended(passBody, retBody) == SubSeq(retBody, Len(passBody) + 1, Len(retBody))

\* C9: the names of the new file's registry that no top-level assignment of
\* the destination binds are appended at the end of the module in the order
\* of their first appearance in the new file, each appended statement after
\* exactly one blank line.
C9_AppendedInOrder ==
    pc = "done" =>
        LET src == SrcBody
            passBody == PassBody
            retBody == RetBody
            unmatched == Unmatched(src, passBody)
            appended == Appended(passBody, retBody)
        IN /\ Len(retBody) >= Len(passBody)
           /\ \A i \in 1..Len(appended) :
                /\ appended[i].k = "line"
                /\ appended[i].lead = 1
                /\ Len(appended[i].body) = 1
           /\ IsSubseq([i \in 1..Len(unmatched) |-> LastGlobalAssign(src, unmatched[i])],
                       [i \in 1..Len(appended) |-> appended[i].body[1]])

\* C9 happens: two names are appended to a destination that is not empty
C9_Witness ==
    /\ pc = "done"
    /\ LET src == SrcBody
           passBody == PassBody
           unmatched == Unmatched(src, passBody)
       IN /\ Len(unmatched) = 2
          /\ LastGlobalAssign(src, unmatched[1]) # LastGlobalAssign(src, unmatched[2])
          /\ passBody # <<>>

IdenticalBindings(src, dst) ==
    LET a == GlobalAssigns(dst) IN
    /\ GlobalNames(src) # {}
    /\ \A n \in GlobalNames(src) :
        /\ \E i \in 1..Len(a) : a[i].s = LastGlobalAssign(src, n)
        /\ \A i \in 1..Len(a) :
              n \in NamesOf(a[i].s) => a[i].s = LastGlobalAssign(src, n)

\* C11: when the destination already has, for every name of the new file's
\* registry, an identical top-level assignment (and no other one to that
\* name), and the new file has no free statement to insert, the result is
\* the destination text as it was.
C11_Idempotent ==
    pc = "done" =>
        LET src == SrcBody
            dst == DstBody
        IN (global_statements = <<>> /\ IdenticalBindings(src, dst))
              => ret = dst_input

\* a statement line holds a top-level assignment to one of names
AssignsTo(line, names) ==
    \E j \in 1..Len(line.body) :
        line.body[j].t = "assign" /\ NamesOf(line.body[j]) \cap names # {}

\* the statements of a module in source order, but for the top-level
\* assignments to names: each function, class and if/else statement that
\* lies in no other one, whole, and each statement line outside of them
RECURSIVE Untargeted(_, _)
Untargeted(stmts, names) ==
    IF stmts = <<>> THEN <<>>
    ELSE LET s == Head(stmts)
             own == IF s.k \in {"def", "class", "if"} THEN <<s>>
                    ELSE IF s.k = "line"
                        THEN IF AssignsTo(s, names) THEN <<>> ELSE <<s>>
                    ELSE Untargeted(s.body, names) \o Untargeted(s.orelse, names)
         IN own \o Untargeted(Tail(stmts), names)

\* C12: every statement of the destination that is not a top-level
\* assignment to a name of the new file's registry is in the result with its
\* exact text, and these statements are in the result in the order they
\* have in the destination.
C12_OrderPreserved ==
    pc = "done" =>
        IsSubseq(Untargeted(DstBody, GlobalNames(SrcBody)), Untargeted(RetBody, {}))

-----------------------------------------------------------------------------
(* get_code, lines 367-483: the file and its syntax tree *)

\* names, as their characters
NameM == <<"m">>
NameF == <<"f">>
NameA == <<"A">>
NameB == <<"B">>
NameEq == <<"_", "_", "e", "q", "_", "_">>
NameRepr == <<"_", "_", "r", "e", "p", "r", "_", "_">>
NameNone == <<"n">>

\* a declaration of a file: a function or a class with decos decorator
\* lines before its def/class line and len lines from that line on (for a
\* class: its header alone), an assignment to a name, a statement that is
\* a bare string, or the rest of a statement that starts, after a semicolon,
\* on the last line of the declaration before it
Decl(kind, name, decos, len, body) ==
    [kind |-> kind, name |-> name, decos |-> decos, len |-> len, body |-> body]

\* the number of lines a declaration takes in the file
RECURSIVE LinesOf(_)
LinesOf(items) ==
    IF items = <<>> THEN 0
    ELSE Head(items).decos + Head(items).len + LinesOf(Head(items).body)
         + LinesOf(Tail(items))

\* ast.parse: the nodes of the declarations from line start on, with the
\* lineno of the def/class keyword (decorators come before it), end_lineno
\* and the line of the first decorator
RECURSIVE AstOf(_, _)
AstOf(items, start) ==
    IF items = <<>> THEN <<>>
    ELSE LET d == Head(items)
             first == start + d.decos
             lineno == IF d.kind = "rest" THEN start - 1 ELSE first
             inner == AstOf(d.body, first + d.len)
             end == first + d.len - 1 + LinesOf(d.body)
         IN <<[kind |-> d.kind, name |-> d.name, lineno |-> lineno,
               end_lineno |-> end,
               decorator_lineno |-> IF d.decos > 0 THEN start ELSE 0,
               body |-> inner]>>
            \o AstOf(Tail(items), end + 1)

\* FunctionParent(name, type)
Parent(name, type) == [name |-> name, type |-> type]
\* FunctionToOptimize(function_name, parents)
Fto(name, parents) == [function_name |-> name, parents |-> parents]

-----------------------------------------------------------------------------
(* get_code.find_target, lines 388-437 *)

\* lines 396 and 401-406: the node is a function or a class of that name,
\* or a single assignment to that name
MatchesName(node, name) ==
    node.kind \in {"func", "class", "assign"} /\ node.name = name

\* the loop of lines 391-410: the first node that matches; an assignment
\* is no target once class_skeleton is not empty. 0 stands for None.
FirstTarget(node_list, name, skeleton) ==
    LET I == {i \in 1..Len(node_list) : MatchesName(node_list[i], name)} IN
    IF I = {} THEN 0
    ELSE LET i == CHOOSE i \in I : \A j \in I : i <= j IN
         IF node_list[i].kind = "assign" /\ skeleton # {} THEN 0 ELSE i

\* line 419, isinstance(cbody[0], ast.expr): the statements of a class body
\* are ast.stmt nodes, and ast.Expr, the statement of a docstring, is a
\* subclass of ast.stmt and not of ast.expr
IsAstExpr(node) == node.kind \in {}

\* lines 427-433: a dunder method other than the target
IsContextDunder(cnode, target_name) ==
    /\ cnode.kind = "func"
    /\ Len(cnode.name) > 4
    /\ cnode.name # target_name
    /\ SubSeq(cnode.name, 1, 2) = <<"_", "_">>
    /\ SubSeq(cnode.name, Len(cnode.name) - 1, Len(cnode.name)) = <<"_", "_">>

\* find_target(module_node.body, name_parts): the target (node 0 for None)
\* and class_skeleton, contextual_dunder_methods as it leaves them
FindTarget(module_body, name_parts, skeleton, dunders) ==
    LET t == FirstTarget(module_body, name_parts[1], skeleton) IN
    IF t = 0 THEN [found |-> FALSE, node |-> <<>>, skeleton |-> skeleton,
                   dunders |-> dunders]
    ELSE IF Len(name_parts) = 1
        THEN [found |-> TRUE, node |-> module_body[t], skeleton |-> skeleton,
              dunders |-> dunders]
    ELSE IF module_body[t].kind # "class"
        THEN [found |-> FALSE, node |-> <<>>, skeleton |-> skeleton,
              dunders |-> dunders]
    ELSE
        LET target == module_body[t]
            sk1 == skeleton \cup {<<target.lineno, target.body[1].lineno - 1>>}
            doc == IsAstExpr(target.body[1])
            sk2 == IF doc
                       THEN sk1 \cup {<<target.body[1].lineno, target.body[1].end_lineno>>}
                       ELSE sk1
            cbody == IF doc THEN Tail(target.body) ELSE target.body
            D == {i \in 1..Len(cbody) : IsContextDunder(cbody[i], name_parts[2])}
            sk3 == sk2 \cup {<<cbody[i].lineno, cbody[i].end_lineno>> : i \in D}
            du == dunders \cup {<<target.name, cbody[i].name>> : i \in D}
            m == FirstTarget(target.body, name_parts[2], sk3)
        IN IF m = 0 THEN [found |-> FALSE, node |-> <<>>, skeleton |-> sk3,
                          dunders |-> du]
           ELSE [found |-> TRUE, node |-> target.body[m], skeleton |-> sk3,
                 dunders |-> du]

\* lines[s - 1 : e], as the numbers of the lines of a file of n lines
Slice(s, e, n) ==
    LET lo == IF s < 1 THEN 1 ELSE s
        hi == IF e > n THEN n ELSE e
    IN IF hi < lo THEN <<>> ELSE [i \in 1..(hi - lo + 1) |-> lo + i - 1]

\* the lines of a target from its def/class line, decorated or not
TargetLinesFromDef(node, n) == Slice(node.lineno, node.end_lineno, n)

\* lines 472-478: the lines of a target, from its first decorator
TargetLines(node, n) ==
    IF node.kind \in {"func", "class"} /\ node.decorator_lineno > 0
        THEN Slice(node.decorator_lineno, node.end_lineno, n)
        ELSE Slice(node.lineno, node.end_lineno, n)

\* sorted(class_skeleton): pairs in lexicographic order
RECURSIVE Sorted(_)
Sorted(S) ==
    IF S = {} THEN <<>>
    ELSE LET lo == CHOOSE a \in S : \A b \in S :
                        a[1] < b[1] \/ (a[1] = b[1] /\ a[2] <= b[2])
         IN <<lo>> \o Sorted(S \ {lo})

\* line 482: the lines of the ranges, one range after the other
RECURSIVE ClassCode(_, _)
ClassCode(ranges, n) ==
    IF ranges = <<>> THEN <<>>
    ELSE Slice(Head(ranges)[1], Head(ranges)[2], n) \o ClassCode(Tail(ranges), n)

-----------------------------------------------------------------------------
(* get_code, lines 367-483 *)

\* add_global_assignments is not running
MergeIdle ==
    /\ src_module_code = <<>>
    /\ dst_module_code = <<>>
    /\ dst_input = <<>>
    /\ global_statements = <<>>
    /\ last_import_line = 0
    /\ new_assignments = EmptyMap
    /\ new_order = <<>>
    /\ ret = <<>>

\* the statements the body of class A is made of: a bare string, a
\* decorated method m, the dunder methods __eq__ and (decorated) __repr__,
\* and an assignment to m
Members ==
    { Decl("doc", <<>>, 0, 1, <<>>),
      Decl("func", NameM, 1, 2, <<>>),
      Decl("func", NameEq, 0, 2, <<>>),
      Decl("func", NameRepr, 1, 1, <<>>),
      Decl("assign", NameM, 0, 1, <<>>) }

\* the files: a function f, an assignment to f, or an assignment to f with
\* the start of another statement on its line; class A; class B with a
\* method m
Files ==
    { first \o <<Decl("class", NameA, 0, 1, body),
                 Decl("class", NameB, 0, 1, <<Decl("func", NameM, 0, 1, <<>>)>>)>> :
        first \in {<<Decl("func", NameF, 1, 2, <<>>)>>,
                   <<Decl("assign", NameF, 0, 1, <<>>)>>,
                   <<Decl("assign", NameF, 0, 1, <<>>), Decl("rest", <<>>, 0, 1, <<>>)>>},
        body \in Seqs(Members, MaxMembers) \ {<<>>} }

\* the declarations that are asked for: methods of A (n is none of them), a
\* method of B, the function f, a function inside f, a function inside a
\* method of A
Requested ==
    { Fto(NameM, <<Parent(NameA, "ClassDef")>>),
      Fto(NameEq, <<Parent(NameA, "ClassDef")>>),
      Fto(NameNone, <<Parent(NameA, "ClassDef")>>),
      Fto(NameM, <<Parent(NameB, "ClassDef")>>),
      Fto(NameF, <<>>),
      Fto(NameM, <<Parent(NameF, "FunctionDef")>>),
      Fto(NameM, <<Parent(NameA, "ClassDef"), Parent(NameM, "FunctionDef")>>) }

\* no declaration, one, or two
RequestLists ==
    {<<>>} \cup {<<a>> : a \in Requested} \cup {<<a, b>> : a \in Requested, b \in Requested}

InitExtract ==
    /\ pc = "guard"
    /\ functions_to_optimize \in RequestLists
    /\ \E ok \in BOOLEAN, items \in Files : source_code = [ok |-> ok, items |-> items]
    /\ class_skeleton = {}
    /\ contextual_dunder_methods = {}
    /\ target_code = <<>>
    /\ names_left = <<>>
    /\ get_code_ret = [none |-> TRUE, code |-> <<>>, dunders |-> {}]
    /\ extract_code_ret = [none |-> TRUE, code |-> <<>>, dunders |-> {}]
    /\ MergeIdle
    /\ ImportsIdle
    /\ LaterIdle

\* return None, set()
ReturnNone ==
    /\ pc' = "done"
    /\ get_code_ret' = [none |-> TRUE, code |-> <<>>, dunders |-> {}]

\* lines 373-381. fn.parents[0] at line 378 raises IndexError for a
\* declaration without parents.
GetCodeGuard ==
    /\ pc = "guard"
    /\ LET f == functions_to_optimize IN
        IF f = <<>> THEN ReturnNone
        ELSE IF f[1].parents # <<>> /\ f[1].parents[1].type # "ClassDef" THEN ReturnNone
        ELSE IF Len(f[1].parents) > 1 THEN ReturnNone
        ELSE IF Len(f) > 1 /\ \E i \in 1..Len(f) : f[i].parents = <<>>
            THEN pc' = "raised" /\ UNCHANGED get_code_ret
        ELSE IF Len(f) > 1 /\ Cardinality({f[i].parents[1] : i \in 1..Len(f)}) # 1
            THEN ReturnNone
        ELSE pc' = "read" /\ UNCHANGED get_code_ret
    /\ UNCHANGED <<mergeVars, importVars, laterVars, extract_code_ret, functions_to_optimize, source_code, class_skeleton,
                   contextual_dunder_methods, target_code, names_left>>

\* lines 452-454 and 460: qualified_name_parts_list
QualifiedNameParts(f) ==
    IF Len(f[1].parents) = 1
        THEN [i \in 1..Len(f) |-> <<f[i].parents[1].name, f[i].function_name>>]
        ELSE <<<<f[1].function_name>>>>

\* lines 439-466: the file is read and parsed, and the names are listed
GetCodeRead ==
    /\ pc = "read"
    /\ IF ~source_code.ok
           THEN ReturnNone /\ UNCHANGED names_left
       ELSE IF Len(functions_to_optimize[1].parents) = 1
               /\ functions_to_optimize[1].parents[1].type # "ClassDef"
           THEN ReturnNone /\ UNCHANGED names_left
       ELSE IF Len(functions_to_optimize[1].parents) > 1
           THEN ReturnNone /\ UNCHANGED names_left
       ELSE /\ names_left' = QualifiedNameParts(functions_to_optimize)
            /\ pc' = "find"
            /\ UNCHANGED get_code_ret
    /\ UNCHANGED <<mergeVars, importVars, laterVars, extract_code_ret, functions_to_optimize, source_code, class_skeleton,
                   contextual_dunder_methods, target_code>>

\* lines 467-478: one turn of the loop over qualified_name_parts_list
GetCodeFindTarget ==
    /\ pc = "find"
    /\ names_left # <<>>
    /\ LET r == FindTarget(AstOf(source_code.items, 1), Head(names_left),
                           class_skeleton, contextual_dunder_methods)
       IN /\ class_skeleton' = r.skeleton
          /\ contextual_dunder_methods' = r.dunders
          /\ target_code' =
                IF r.found
                    THEN target_code \o TargetLines(r.node, LinesOf(source_code.items))
                    ELSE target_code
    /\ names_left' = Tail(names_left)
    /\ UNCHANGED <<pc, mergeVars, importVars, laterVars, extract_code_ret, functions_to_optimize, source_code, get_code_ret>>

\* lines 479-483
GetCodeReturn ==
    /\ pc = "find"
    /\ names_left = <<>>
    /\ IF target_code = <<>> THEN ReturnNone
       ELSE /\ pc' = "done"
            /\ get_code_ret' =
                [none |-> FALSE,
                 code |-> ClassCode(Sorted(class_skeleton), LinesOf(source_code.items))
                          \o target_code,
                 dunders |-> contextual_dunder_methods]
    /\ UNCHANGED <<mergeVars, importVars, laterVars, extract_code_ret, functions_to_optimize, source_code, class_skeleton,
                   contextual_dunder_methods, target_code, names_left>>

\* the lines of the declarations of a file, each with its indentation and
\* what it holds: a decorator, the header of a block, a function written on
\* one line, a statement, a statement followed by the start of one that
\* goes on ("open"), and the lines that go on with it and end it
RECURSIVE LineKinds(_, _)
LineKinds(items, ind) ==
    IF items = <<>> THEN <<>>
    ELSE LET d == Head(items)
             open == Len(items) > 1 /\ items[2].kind = "rest"
             decos == [i \in 1..d.decos |-> [t |-> "deco", ind |-> ind]]
             own ==
                IF d.kind = "class"
                    THEN <<[t |-> "head", ind |-> ind]>> \o LineKinds(d.body, ind + 1)
                ELSE IF d.kind = "func"
                    THEN IF d.len = 1 THEN <<[t |-> "def1", ind |-> ind]>>
                         ELSE <<[t |-> "head", ind |-> ind]>>
                              \o [i \in 1..(d.len - 1) |-> [t |-> "simple", ind |-> ind + 1]]
                ELSE IF d.kind = "rest"
                    THEN [i \in 1..d.len |->
                            [t |-> IF i = d.len THEN "close" ELSE "inner", ind |-> ind]]
                ELSE [i \in 1..d.len |->
                        [t |-> IF open /\ i = d.len THEN "open" ELSE "simple", ind |-> ind]]
         IN decos \o own \o LineKinds(Tail(items), ind)

\* compile(..., "exec") on lines: the blocks the indentation makes are well
\* formed, a header is followed by its block, a decorator by a decorator, a
\* function or a class, and a statement that goes on is ended. stack holds
\* the indentations of the open blocks.
RECURSIVE CompilesFrom(_, _, _)
CompilesFrom(lines, stack, expect) ==
    IF lines = <<>> THEN expect = "statement"
    ELSE LET l == Head(lines)
             top == stack[Len(stack)]
             next == IF l.t = "head" THEN "block"
                     ELSE IF l.t = "deco" THEN "decorated"
                     ELSE IF l.t \in {"open", "inner"} THEN "close"
                     ELSE "statement"
             level == {i \in 1..Len(stack) : stack[i] = l.ind}
         IN IF expect = "close"
                THEN l.t \in {"inner", "close"} /\ CompilesFrom(Tail(lines), stack, next)
            ELSE IF l.t \in {"inner", "close"} THEN FALSE
            ELSE IF expect = "block"
                THEN l.ind > top /\ CompilesFrom(Tail(lines), Append(stack, l.ind), next)
            ELSE IF expect = "decorated"
                THEN /\ l.ind = top
                     /\ l.t \in {"deco", "head", "def1"}
                     /\ CompilesFrom(Tail(lines), stack, next)
            ELSE /\ level # {}
                 /\ CompilesFrom(Tail(lines),
                                 SubSeq(stack, 1, CHOOSE i \in level : TRUE), next)

Compiles(lines) == CompilesFrom(lines, <<0>>, "statement")

\* get_code_ret.code as the lines of the file
EditedCode ==
    LET kinds == LineKinds(source_code.items, 0) IN
    [i \in 1..Len(get_code_ret.code) |-> kinds[get_code_ret.code[i]]]

\* extract_code that returns what get_code returned without compiling it
ExtractCodeUncompiled ==
    /\ pc = "done"
    /\ extract_code_ret' = get_code_ret
    /\ pc' = "extracted"
    /\ UNCHANGED <<mergeVars, importVars, laterVars, functions_to_optimize, source_code,
                   class_skeleton, contextual_dunder_methods, target_code,
                   names_left, get_code_ret>>

\* extract_code, lines 486-495, once get_code has returned
ExtractCode ==
    /\ pc = "done"
    /\ extract_code_ret' =
          IF get_code_ret.none \/ ~Compiles(EditedCode)
              THEN [none |-> TRUE, code |-> <<>>, dunders |-> {}]
              ELSE get_code_ret
    /\ pc' = "extracted"
    /\ UNCHANGED <<mergeVars, importVars, laterVars, functions_to_optimize, source_code,
                   class_skeleton, contextual_dunder_methods, target_code,
                   names_left, get_code_ret>>

NextExtract ==
    \/ GetCodeGuard
    \/ GetCodeRead
    \/ GetCodeFindTarget
    \/ GetCodeReturn
    \/ ExtractCode

SpecExtract == InitExtract /\ [][NextExtract]_vars

-----------------------------------------------------------------------------
(* Claims on get_code *)

\* the lines first..last
Range(first, last) == {i \in 1..LinesOf(source_code.items) : first <= i /\ i <= last}

\* the lines of a declaration, its decorators included
DeclLines(node) ==
    Range(IF node.decorator_lineno > 0 THEN node.decorator_lineno ELSE node.lineno,
          node.end_lineno)

\* a name between double underscores
IsDunderName(name) ==
    /\ Len(name) > 4
    /\ SubSeq(name, 1, 2) = <<"_", "_">>
    /\ SubSeq(name, Len(name) - 1, Len(name)) = <<"_", "_">>

\* the classes of the file with that name
ClassesNamed(name) ==
    LET tree == AstOf(source_code.items, 1) IN
    {tree[i] : i \in {j \in 1..Len(tree) : tree[j].kind = "class" /\ tree[j].name = name}}

\* the methods of a class with that name
MethodsNamed(class, name) ==
    {class.body[i] : i \in {j \in 1..Len(class.body) :
                                class.body[j].kind = "func" /\ class.body[j].name = name}}

\* one method of a class of the file is asked for, and the file parses
SingleMethodRequest ==
    /\ source_code.ok
    /\ Len(functions_to_optimize) = 1
    /\ Len(functions_to_optimize[1].parents) = 1
    /\ functions_to_optimize[1].parents[1].type = "ClassDef"
    /\ \E c \in ClassesNamed(functions_to_optimize[1].parents[1].name) :
            MethodsNamed(c, functions_to_optimize[1].function_name) # {}

\* what the snippet of a method of a class is to hold: the class header, the
\* docstring when the class body starts with one, the dunder methods other
\* than the target, and the target
SkeletonAndTarget(class, name) ==
    LET target == CHOOSE t \in MethodsNamed(class, name) :
                    \A u \in MethodsNamed(class, name) : t.lineno <= u.lineno
    IN Range(class.lineno, class.lineno)
       \cup (IF class.body[1].kind = "doc" THEN DeclLines(class.body[1]) ELSE {})
       \cup UNION {DeclLines(class.body[i]) :
                     i \in {j \in 1..Len(class.body) :
                                /\ class.body[j].kind = "func"
                                /\ IsDunderName(class.body[j].name)
                                /\ class.body[j].name # name}}
       \cup DeclLines(target)

\* C3: the snippet of a single method of a class holds the class header, the
\* class docstring when the class body starts with one, every dunder method
\* of the class other than the target, and the target method, and no other
\* line of the class body.
C3_SkeletonComplete ==
    (pc = "done" /\ SingleMethodRequest) =>
        /\ ~get_code_ret.none
        /\ \E c \in ClassesNamed(functions_to_optimize[1].parents[1].name) :
            {get_code_ret.code[i] : i \in 1..Len(get_code_ret.code)}
                = SkeletonAndTarget(c, functions_to_optimize[1].function_name)

\* a request list the structural guard is to refuse: a declaration with
\* more than one parent or with a parent that is not a class, or several
\* declarations that are not all in one and the same class
Mismatched(f) ==
    \/ \E i \in 1..Len(f) : Len(f[i].parents) > 1
    \/ \E i \in 1..Len(f) : \E j \in 1..Len(f[i].parents) :
            f[i].parents[j].type # "ClassDef"
    \/ /\ Len(f) > 1
       /\ \/ f[1].parents = <<>>
          \/ \E i \in 1..Len(f) : f[i].parents # <<f[1].parents[1]>>

\* C16: for a request list with a declaration of more than one parent or
\* with a parent that is not a class, or with several declarations that do
\* not share one enclosing class, get_code does not raise and returns
\* (None, empty set).
C16_StructuralGuard ==
    (pc \in {"done", "raised"} /\ Mismatched(functions_to_optimize))
        => (pc = "done" /\ get_code_ret.none /\ get_code_ret.dunders = {})

\* the file declares what f asks for: a top-level declaration of that
\* name, or a member of that name in a top-level class of the parent's name
Declared(f) ==
    LET tree == AstOf(source_code.items, 1) IN
    IF f.parents = <<>>
        THEN \E i \in 1..Len(tree) : tree[i].name = f.function_name
        ELSE \E i \in 1..Len(tree) :
                /\ tree[i].kind = "class"
                /\ tree[i].name = f.parents[1].name
                /\ \E j \in 1..Len(tree[i].body) :
                        tree[i].body[j].name = f.function_name

\* C17: when a requested declaration is not declared in the file, get_code
\* returns (None, empty set), for a single requested declaration and for
\* several requested methods of one class.
C17_UnresolvedReturnsNone ==
    (/\ pc = "done"
     /\ ~Mismatched(functions_to_optimize)
     /\ \E i \in 1..Len(functions_to_optimize) : ~Declared(functions_to_optimize[i]))
        => (get_code_ret.none /\ get_code_ret.dunders = {})

RequestedNames ==
    {functions_to_optimize[i].function_name : i \in 1..Len(functions_to_optimize)}

\* the pairs (class name, method name) of the dunder methods of the class
\* that is asked for, but for the methods that are asked for
OtherDunders ==
    IF functions_to_optimize[1].parents = <<>> THEN {}
    ELSE LET c == CHOOSE c \in ClassesNamed(functions_to_optimize[1].parents[1].name) : TRUE
         IN {<<c.name, c.body[j].name>> :
                j \in {k \in 1..Len(c.body) :
                          /\ c.body[k].kind = "func"
                          /\ IsDunderName(c.body[k].name)
                          /\ c.body[k].name \notin RequestedNames}}

\* the def lines of the methods that are asked for
RequestedDefLines ==
    IF functions_to_optimize[1].parents = <<>> THEN {}
    ELSE LET c == CHOOSE c \in ClassesNamed(functions_to_optimize[1].parents[1].name) : TRUE
         IN {c.body[j].lineno :
                j \in {k \in 1..Len(c.body) :
                          c.body[k].kind = "func" /\ c.body[k].name \in RequestedNames}}

\* C19: the dunder set of a successful get_code is the set of the pairs
\* (class name, method name) of the dunder methods of the class body other
\* than the requested methods, and no requested method is in the set or in
\* the ranges of the skeleton.
C19_DunderSet ==
    (pc = "done" /\ ~get_code_ret.none) =>
        /\ get_code_ret.dunders = OtherDunders
        /\ \A r \in class_skeleton : \A l \in RequestedDefLines : ~(r[1] <= l /\ l <= r[2])

\* the lines first..last, in order
LineSeq(first, last) ==
    IF last < first THEN <<>> ELSE [i \in 1..(last - first + 1) |-> first + i - 1]

\* the declarations among which f is looked for: those of the file, or
\* those of the body of the class f is a method of
ScopeOf(f) ==
    LET tree == AstOf(source_code.items, 1) IN
    IF f.parents = <<>> THEN tree
    ELSE IF ClassesNamed(f.parents[1].name) = {} THEN <<>>
    ELSE (CHOOSE c \in ClassesNamed(f.parents[1].name) :
            \A d \in ClassesNamed(f.parents[1].name) : c.lineno <= d.lineno).body

\* the text of the declaration f asks for, the first one of that name: from
\* its first decorator through its last line; nothing when there is none,
\* and nothing for an assignment in a class body, which is no method
RequestedText(f) ==
    LET scope == ScopeOf(f)
        I == {i \in 1..Len(scope) :
                /\ scope[i].kind \in {"func", "class", "assign"}
                /\ scope[i].name = f.function_name}
    IN IF I = {} THEN <<>>
       ELSE LET node == scope[CHOOSE i \in I : \A j \in I : i <= j] IN
            IF node.kind = "assign" /\ f.parents # <<>> THEN <<>>
            ELSE LineSeq(IF node.decorator_lineno > 0 THEN node.decorator_lineno
                         ELSE node.lineno,
                         node.end_lineno)

\* the texts of the declarations asked for, in the order of the requests
RECURSIVE RequestedTexts(_)
RequestedTexts(f) ==
    IF f = <<>> THEN <<>> ELSE RequestedText(Head(f)) \o RequestedTexts(Tail(f))

\* the lines of a set of ranges that do not overlap, by ascending start
RECURSIVE AscendingText(_)
AscendingText(ranges) ==
    IF ranges = {} THEN <<>>
    ELSE LET lo == CHOOSE r \in ranges : \A q \in ranges : r[1] <= q[1]
         IN LineSeq(lo[1], lo[2]) \o AscendingText(ranges \ {lo})

\* C20: the text get_code returns is the ranges of the class skeleton, no
\* two of which overlap, by ascending start line, followed by the text of
\* each requested declaration in the order of the requests, from its first
\* decorator line (its def/class line without decorator) through its last
\* line.
C20_SnippetLayout ==
    (pc = "done" /\ ~get_code_ret.none) =>
        /\ \A r, q \in class_skeleton : r # q => (r[2] < q[1] \/ q[2] < r[1])
        /\ get_code_ret.code =
              AscendingText(class_skeleton) \o RequestedTexts(functions_to_optimize)

\* C20 happens: two methods are asked for in the order opposite to the one
\* they have in the file, the second with a decorator, and the skeleton has
\* three ranges or more
C20_Witness ==
    /\ pc = "done"
    /\ ~get_code_ret.none
    /\ Cardinality(class_skeleton) >= 3
    /\ Len(functions_to_optimize) = 2
    /\ LET a == RequestedText(functions_to_optimize[1])
           b == RequestedText(functions_to_optimize[2])
       IN /\ a # <<>> /\ b # <<>>
          /\ b[1] < a[1]
          /\ \E i \in 1..Len(ScopeOf(functions_to_optimize[2])) :
                ScopeOf(functions_to_optimize[2])[i].decorator_lineno = b[1]

-----------------------------------------------------------------------------
(* add_needed_imports_from_module, lines 298-364 *)

\* an import of a module, of an object of it when obj is not "", under
\* another name when asname is not ""
ImportOf(mod, obj, asname) == [mod |-> mod, obj |-> obj, asname |-> asname]

\* the imports a new file is made of: import os, import __future__,
\* from pkg import helper, import os as o, import __future__ as f,
\* from pkg import helper as h, from __future__ import annotations as a
SrcImports ==
    {ImportOf("os", "", ""), ImportOf("__future__", "", ""),
     ImportOf("pkg", "helper", ""), ImportOf("os", "", "o"),
     ImportOf("__future__", "", "f"), ImportOf("pkg", "helper", "h"),
     ImportOf("__future__", "annotations", "a")}

\* the imports a destination file is made of
DstImports == {ImportOf("os", "", ""), ImportOf("sys", "", "")}

\* the imports the code of a destination file may use
UsedImports ==
    {ImportOf("os", "", ""), ImportOf("pkg", "helper", ""), ImportOf("os", "", "o"),
     ImportOf("pkg", "helper", "h")}

\* the subsets of S of at most n elements
SubsetsUpTo(S, n) == {T \in SUBSET S : Cardinality(T) <= n}

InitImports ==
    /\ pc = "future"
    /\ src_imports_code \in
         {ImportsFile(ok, 0, imports, {}) :
            ok \in BOOLEAN, imports \in SubsetsUpTo(SrcImports, MaxImports)}
    /\ \E ok \in BOOLEAN, lead \in 0..1, imports \in SUBSET DstImports,
          used \in SUBSET UsedImports :
            dst_imports_code = ImportsFile(ok, lead, imports, used)
    /\ helper_functions \in SUBSET {<<"pkg", "helper">>}
    /\ helper_functions_fqn \in SUBSET {<<"pkg", "helper">>}
    /\ dst_module_name \in {"dst", "pkg"}
    /\ gatherer = EmptyGatherer
    /\ dst_context = EmptyContext
    /\ imports_ret = ImportsFile(TRUE, 0, {}, {})
    /\ MergeIdle
    /\ ExtractIdle
    /\ LaterIdle

\* FutureAliasedImportTransformer.leave_ImportFrom: an import from
\* __future__ loses its aliased names, and goes when none is left
IsFutureAliased(i) == i.mod = "__future__" /\ i.obj # "" /\ i.asname # ""

\* delete___future___aliased_imports: parse, transform, print
DeleteFutureAliased(code) ==
    [code EXCEPT !.imports = {i \in @ : ~IsFutureAliased(i)}]

\* AddImportsVisitor.add_needed_import refuses a bare import of __future__
AddRaises(i) == i.mod = "__future__" /\ i.obj = ""

\* lines 308-310: the aliased imports of __future__ are deleted from the new
\* file, whose parse is not guarded, and helper_functions_fqn is defaulted
DeleteFutureAliasedImports ==
    /\ pc = "future"
    /\ IF ~src_imports_code.ok
         THEN /\ pc' = "raised"
              /\ UNCHANGED <<src_imports_code, helper_functions_fqn>>
         ELSE /\ src_imports_code' = DeleteFutureAliased(src_imports_code)
              /\ helper_functions_fqn' =
                    IF helper_functions_fqn = {} THEN helper_functions
                    ELSE helper_functions_fqn
              /\ pc' = "gather"
    /\ UNCHANGED <<mergeVars, extractVars, laterVars, dst_imports_code, helper_functions,
                   dst_module_name, gatherer, dst_context, imports_ret>>

\* GatherImportsVisitor: the imports of a file by their form
Gather(code) ==
    [module_imports |-> {i \in code.imports : i.obj = "" /\ i.asname = ""},
     object_mapping |-> {i \in code.imports : i.obj # "" /\ i.asname = ""},
     module_aliases |-> {i \in code.imports : i.obj = "" /\ i.asname # ""},
     alias_mapping  |-> {i \in code.imports : i.obj # "" /\ i.asname # ""}]

\* lines 312-327: the context of the destination is made and the imports
\* of the new file are gathered, outside of any try
GatherImports ==
    /\ pc = "gather"
    /\ IF ~src_imports_code.ok
         THEN pc' = "raised" /\ UNCHANGED <<gatherer, dst_context>>
         ELSE /\ dst_context' = EmptyContext
              /\ gatherer' = Gather(src_imports_code)
              /\ pc' = "request"
    /\ UNCHANGED <<mergeVars, extractVars, laterVars, src_imports_code, dst_imports_code,
                   helper_functions, helper_functions_fqn, dst_module_name,
                   imports_ret>>

\* the skip test without the test on the module of the destination
SkippedObjectHelperOnly(i) == <<i.mod, i.obj>> \in helper_functions_fqn

\* lines 333-337: a named object is skipped when it is a helper function or
\* comes from the module of the destination
SkippedObject(i) ==
    \/ <<i.mod, i.obj>> \in helper_functions_fqn
    \/ dst_module_name = i.mod

\* add_needed_import without the remove_unused_import that follows it
RequestAddOnly(context, requested) ==
    [add |-> context.add \cup requested, remove |-> context.remove]

\* AddImportsVisitor.add_needed_import then
\* RemoveImportsVisitor.remove_unused_import on each requested import
RequestAddThenRemove(context, requested) ==
    [add |-> context.add \cup requested, remove |-> context.remove \cup requested]

\* lines 328-342: under try, the plain and the named-object imports are
\* requested to be added and to be removed when unused
RequestImports ==
    /\ pc = "request"
    /\ LET requested ==
              gatherer.module_imports
              \cup {i \in gatherer.object_mapping : ~SkippedObject(i)}
       IN IF \E i \in requested : AddRaises(i)
            THEN /\ imports_ret' = dst_imports_code
                 /\ pc' = "done"
                 /\ UNCHANGED dst_context
            ELSE /\ dst_context' = RequestAddThenRemove(dst_context, requested)
                 /\ pc' = "request_aliases"
                 /\ UNCHANGED imports_ret
    /\ UNCHANGED <<mergeVars, extractVars, laterVars, src_imports_code, dst_imports_code,
                   helper_functions, helper_functions_fqn, dst_module_name,
                   gatherer>>

\* lines 343-351: outside of any try, the aliased imports are requested to
\* be added and to be removed when unused
RequestAliasedImports ==
    /\ pc = "request_aliases"
    /\ LET requested ==
              gatherer.module_aliases
              \cup {i \in gatherer.alias_mapping :
                        <<i.mod, i.obj>> \notin helper_functions_fqn}
       IN IF \E i \in requested : AddRaises(i)
            THEN pc' = "raised" /\ UNCHANGED dst_context
            ELSE /\ dst_context' = RequestAddThenRemove(dst_context, requested)
                 /\ pc' = "transform"
    /\ UNCHANGED <<mergeVars, extractVars, laterVars, src_imports_code, dst_imports_code,
                   helper_functions, helper_functions_fqn, dst_module_name,
                   gatherer, imports_ret>>

\* AddImportsVisitor then RemoveImportsVisitor on a parsed destination: what
\* was requested is added, and what was requested to be removed goes when
\* the code does not use it; the text printed is stripped of the blank
\* lines it starts with
TransformModule(code, context) ==
    ImportsFile(TRUE, 0,
                (code.imports \cup context.add)
                    \ {i \in context.remove : i \notin code.used},
                code.used)

\* lines 353-364: the destination is parsed, transformed and returned; it
\* is returned as it was when it does not parse
TransformImports ==
    /\ pc = "transform"
    /\ imports_ret' = IF ~dst_imports_code.ok THEN dst_imports_code
                      ELSE TransformModule(dst_imports_code, dst_context)
    /\ pc' = "done"
    /\ UNCHANGED <<mergeVars, extractVars, laterVars, src_imports_code, dst_imports_code,
                   helper_functions, helper_functions_fqn, dst_module_name,
                   gatherer, dst_context>>

NextImports ==
    \/ DeleteFutureAliasedImports
    \/ GatherImports
    \/ RequestImports
    \/ RequestAliasedImports
    \/ TransformImports

SpecImports == InitImports /\ [][NextImports]_vars

-----------------------------------------------------------------------------
(* Claims on add_needed_imports_from_module *)

\* the new file does not parse, or a request on one of its imports raises
ImportsException ==
    \/ ~src_imports_code.ok
    \/ \E i \in src_imports_code.imports : AddRaises(i)

\* C2: any exception raised while the imports of the new file are gathered
\* or while additions and removals are requested, for plain, named-object
\* and aliased imports alike, is caught: the call never raises, and it
\* returns the destination text unchanged.
C2_ExceptionsCaught ==
    ImportsException =>
        /\ pc # "raised"
        /\ pc = "done" => imports_ret = dst_imports_code

\* the call has run to its end with no exception and a destination that
\* parses: imports_ret is the transformed destination
Reconciled ==
    /\ pc = "done"
    /\ ~ImportsException
    /\ dst_imports_code.ok

\* C13: an import of the destination that the destination does not use and
\* that the new file does not hold is not in the result.
C13_UnusedPruned ==
    Reconciled =>
        \A y \in dst_imports_code.imports :
            (y \notin dst_imports_code.used /\ y \notin src_imports_code.imports)
                => y \notin imports_ret.imports

IsSkipped(x) ==
    \/ x.obj # "" /\ <<x.mod, x.obj>> \in helper_functions_fqn
    \/ x.obj # "" /\ x.asname = "" /\ dst_module_name = x.mod

C15_SkippedNeverAdded ==
    pc = "done" =>
        \A x \in imports_ret.imports \ dst_imports_code.imports :
            /\ ~(x.obj # "" /\ <<x.mod, x.obj>> \in helper_functions_fqn)
            /\ ~(x.obj # "" /\ x.asname = "" /\ x.mod = dst_module_name)

\* C15 happens: the new file imports an object of the module of the
\* destination, no helper is excluded, the code of the destination uses the
\* object, and the import is not added
C15_Witness ==
    /\ Reconciled
    /\ helper_functions_fqn = {}
    /\ \E x \in src_imports_code.imports \ dst_imports_code.imports :
        /\ x.obj # "" /\ x.asname = "" /\ x.mod = dst_module_name
        /\ x \in dst_imports_code.used
        /\ x \notin imports_ret.imports

-----------------------------------------------------------------------------
(* delete___future___aliased_imports, lines 246-264 *)

\* one entry of an import statement: name, or name as asname ("" is None)
ImportAlias(name, asname) == [name |-> name, asname |-> asname]

\* from <relative dots><module> import <names> ("" is a module of None)
ImportFrom(module, relative, names) ==
    [kind |-> "from", module |-> module, relative |-> relative, names |-> names]

\* import <names>
CstImport(names) ==
    [kind |-> "import", module |-> "", relative |-> 0, names |-> names]

\* a text: whether cst.parse_module accepts it, and its statements
FutureText(ok, body) == [ok |-> ok, body |-> body]

\* leave_ImportFrom dropping only the first aliased entry of the statement
LeaveImportFromFirstAlias(updated_node) ==
    IF /\ updated_node.module # ""
       /\ updated_node.module = "__future__"
    THEN LET aliased == {i \in DOMAIN updated_node.names : updated_node.names[i].asname # ""}
             first == IF aliased = {} THEN 0
                      ELSE CHOOSE i \in aliased : \A j \in aliased : i <= j
             names == [i \in 1..(Len(updated_node.names) - (IF first = 0 THEN 0 ELSE 1)) |->
                         IF first = 0 \/ i < first THEN updated_node.names[i]
                         ELSE updated_node.names[i + 1]]
         IN  IF names # <<>>
             THEN <<[updated_node EXCEPT !.names = names]>>
             ELSE <<>>
    ELSE <<updated_node>>

\* lines 249-260: what leave_ImportFrom makes of one statement, as the
\* statements left in its place (none after cst.RemoveFromParent())
LeaveImportFrom(updated_node) ==
    IF /\ updated_node.module # ""
       /\ updated_node.module = "__future__"
    THEN LET names == SelectSeq(updated_node.names, LAMBDA name : name.asname = "")
         IN  IF names # <<>>
             THEN <<[updated_node EXCEPT !.names = names]>>
             ELSE <<>>
    ELSE <<updated_node>>

RECURSIVE VisitFutureAliased(_)
\* lines 246-260: the transformer over the statements of a module; only
\* ImportFrom nodes are handed to leave_ImportFrom
VisitFutureAliased(body) ==
    IF body = <<>> THEN <<>>
    ELSE (IF Head(body).kind = "from" THEN LeaveImportFrom(Head(body)) ELSE <<Head(body)>>)
         \o VisitFutureAliased(Tail(body))

\* lines 263-264: the text returned for a text that parses
delete___future___aliased_imports(code) ==
    FutureText(TRUE, VisitFutureAliased(code.body))

\* the entries an import statement is made of
Entries == {ImportAlias("annotations", ""), ImportAlias("division", "d")}

\* the statements a text is made of
FutureStatements ==
    {ImportFrom(from[1], from[2], names) :
        from \in {<<"__future__", 0>>, <<"__future__", 1>>, <<"os", 0>>, <<"", 1>>},
        names \in Seqs(Entries, MaxEntries) \ {<<>>}}
    \cup {CstImport(<<ImportAlias("__future__", "f")>>)}

InitFuture ==
    /\ pc = "normalize"
    /\ module_code \in {FutureText(ok, body) :
                          ok \in BOOLEAN, body \in Seqs(FutureStatements, MaxFutureLen)}
    /\ future_ret = <<>>
    /\ future_prev = <<>>
    /\ future_calls = 0
    /\ MergeIdle
    /\ ExtractIdle
    /\ ImportsIdle
    /\ ScanIdle
    /\ InvocationsIdle
    /\ WalkIdle
    /\ PrIdle
    /\ PatchesIdle

\* the text the next call is made on
FutureArgument == IF future_calls = 0 THEN module_code ELSE future_ret

\* line 264: cst.parse_module raises on a text that does not parse
DeleteFutureRaises ==
    /\ pc = "normalize"
    /\ ~FutureArgument.ok
    /\ pc' = "raised"
    /\ UNCHANGED <<notFutureVars, futureVars>>

\* lines 263-264: one call of delete___future___aliased_imports
DeleteFutureReturns ==
    /\ pc = "normalize"
    /\ future_calls < MaxCalls
    /\ FutureArgument.ok
    /\ future_prev' = FutureArgument
    /\ future_ret' = delete___future___aliased_imports(FutureArgument)
    /\ future_calls' = future_calls + 1
    /\ UNCHANGED <<pc, notFutureVars, module_code>>

NextFuture ==
    \/ DeleteFutureRaises
    \/ DeleteFutureReturns

SpecFuture == InitFuture /\ [][NextFuture]_vars

\* whether a statement is a from __future__ import statement
IsFutureImport(s) == s.kind = "from" /\ s.module = "__future__" /\ s.relative = 0

\* the entries of a statement that carry no alias, in their order
Unaliased(s) == SelectSeq(s.names, LAMBDA name : name.asname = "")

RECURSIVE FutureNormalised(_)
\* a text in which every from __future__ import statement keeps exactly its
\* unaliased entries, or is gone when it has none, and nothing else differs
FutureNormalised(body) ==
    IF body = <<>> THEN <<>>
    ELSE LET s == Head(body)
         IN  (IF IsFutureImport(s)
              THEN (IF Unaliased(s) = <<>> THEN <<>>
                    ELSE <<[s EXCEPT !.names = Unaliased(s)]>>)
              ELSE <<s>>)
             \o FutureNormalised(Tail(body))

\* C21: after a call, every from __future__ import statement of the text keeps
\* exactly its unaliased entries in order, a statement whose entries are all
\* aliased is gone, and every other statement is as it was
C21_FutureAliasesDropped ==
    future_calls >= 1 => future_ret.body = FutureNormalised(future_prev.body)

-----------------------------------------------------------------------------
(* find_preexisting_objects, lines 498-514 *)

\* a node of the tree ast.parse returns: its type, its name and its body
AstNode(type, name, body) == [type |-> type, name |-> name, body |-> body]

\* FunctionParent(name, "ClassDef")
FunctionParent(name, type) == [name |-> name, type |-> type]

\* lines 511-513 keeping only the plain functions of the class body
ClassBodyObjectsSyncOnly(node) ==
    {<<node.body[i].name, <<FunctionParent(node.name, "ClassDef")>>>> :
        i \in {j \in DOMAIN node.body : node.body[j].type = "FunctionDef"}}

\* lines 511-513: the objects added for the body of a class
ClassBodyObjects(node) ==
    {<<node.body[i].name, <<FunctionParent(node.name, "ClassDef")>>>> :
        i \in {j \in DOMAIN node.body :
                 node.body[j].type \in {"FunctionDef", "AsyncFunctionDef"}}}

\* lines 507-513: the objects added for one statement of the module
NodeObjects(node) ==
    IF node.type \in {"FunctionDef", "AsyncFunctionDef"}
    THEN {<<node.name, <<>>>>}
    ELSE IF node.type = "ClassDef"
         THEN {<<node.name, <<>>>>} \cup ClassBodyObjects(node)
         ELSE {}

RECURSIVE ModuleObjects(_, _)
\* lines 506-513: the loop over module_node.body, adding to preexisting_objects
ModuleObjects(body, objects) ==
    IF body = <<>> THEN objects
    ELSE ModuleObjects(Tail(body), objects \cup NodeObjects(Head(body)))

\* the bodies of the classes of a file
ScanClassBodies ==
    LET m == AstNode("FunctionDef", "m", <<AstNode("FunctionDef", "deep", <<>>)>>)
        n == AstNode("AsyncFunctionDef", "f", <<>>)
        inner == AstNode("ClassDef", "Inner", <<AstNode("FunctionDef", "im", <<>>)>>)
        cond == AstNode("If", "", <<AstNode("FunctionDef", "cm", <<>>)>>)
        x == AstNode("Assign", "x", <<>>)
    IN  {<<>>, <<m>>, <<n, m>>, <<m, m>>, <<inner, x>>, <<cond, n>>}

\* the statements a scanned file is made of
ScanStatements ==
    {AstNode("ClassDef", name, body) : name \in {"A", "f"}, body \in ScanClassBodies}
    \cup {AstNode("FunctionDef", "f", <<AstNode("FunctionDef", "nested", <<>>)>>),
          AstNode("AsyncFunctionDef", "g", <<>>),
          AstNode("If", "", <<AstNode("FunctionDef", "cf", <<>>),
                              AstNode("ClassDef", "C", <<AstNode("FunctionDef", "m", <<>>)>>)>>),
          AstNode("Assign", "A", <<>>)}

InitScan ==
    /\ pc = "scan"
    /\ scan_source \in {[ok |-> ok, body |-> body] :
                          ok \in BOOLEAN, body \in Seqs(ScanStatements, MaxScanLen)}
    /\ preexisting_objects = {}
    /\ MergeIdle
    /\ ExtractIdle
    /\ ImportsIdle
    /\ FutureIdle
    /\ InvocationsIdle
    /\ WalkIdle
    /\ PrIdle
    /\ PatchesIdle

\* lines 501-505: ast.parse raises SyntaxError; the empty set is returned
ScanSyntaxError ==
    /\ pc = "scan"
    /\ ~scan_source.ok
    /\ preexisting_objects' = {}
    /\ pc' = "scanned"
    /\ UNCHANGED <<notScanVars, scan_source>>

\* lines 501-514: the file parses; its statements are scanned
ScanReturns ==
    /\ pc = "scan"
    /\ scan_source.ok
    /\ preexisting_objects' = ModuleObjects(scan_source.body, {})
    /\ pc' = "scanned"
    /\ UNCHANGED <<notScanVars, scan_source>>

NextScan ==
    \/ ScanSyntaxError
    \/ ScanReturns

SpecScan == InitScan /\ [][NextScan]_vars

\* the positions of a body that hold a function (plain or async)
FunctionsIn(body) ==
    {i \in DOMAIN body : body[i].type \in {"FunctionDef", "AsyncFunctionDef"}}

\* the positions of a body that hold a class
ClassesIn(body) == {i \in DOMAIN body : body[i].type = "ClassDef"}

\* the pairs a file declares: its top-level functions and classes with no
\* parent, and the functions directly in the body of a top-level class with
\* that class as the parent
DeclaredObjects(body) ==
    {<<body[i].name, <<>>>> : i \in FunctionsIn(body) \cup ClassesIn(body)}
    \cup UNION {{<<body[i].body[j].name, <<FunctionParent(body[i].name, "ClassDef")>>>> :
                    j \in FunctionsIn(body[i].body)} : i \in ClassesIn(body)}

\* C23: the returned set is exactly the top-level functions and classes with
\* no parent and the functions directly in a top-level class body with that
\* class; for a text with a syntax error it is the empty set
C23_PreexistingObjects ==
    pc = "scanned" =>
        preexisting_objects =
            IF scan_source.ok THEN DeclaredObjects(scan_source.body) ELSE {}

\* a scanned file with an async method in a top-level class, and a definition
\* nested deeper or under a condition that is not reported
C23_Witness ==
    /\ pc = "scanned"
    /\ scan_source.ok
    /\ \E i \in ClassesIn(scan_source.body) :
          \E j \in DOMAIN scan_source.body[i].body :
              scan_source.body[i].body[j].type = "AsyncFunctionDef"
    /\ \E i \in DOMAIN scan_source.body :
          /\ scan_source.body[i].type \in {"If", "FunctionDef"}
          /\ scan_source.body[i].body # <<>>
          /\ \A o \in preexisting_objects : o[1] # scan_source.body[i].body[1].name

-----------------------------------------------------------------------------
(* Invocations of add_global_assignments, add_needed_imports_from_module and
   get_code that run interleaved. What an invocation constructs (lines
   268-288, 312-327, 383-386) is held in frames, under the invocation that
   constructed it. *)

\* the invocations that run together
Invocations == {1, 2}

\* an invocation of add_global_assignments(src_module_code, dst_module_code)
MergeCall(src, dst) == [op |-> "merge", what |-> src, where |-> dst]

\* an invocation of add_needed_imports_from_module(src_module_code, dst_module_code, ...)
ReconcileCall(src, dst) == [op |-> "reconcile", what |-> src, where |-> dst]

\* an invocation of get_code(functions_to_optimize) on the file of the functions
ExtractCall(request, file) == [op |-> "extract", what |-> request, where |-> file]

\* what an invocation has constructed before its first statement
EmptyFrame ==
    [gatherer |-> EmptyGatherer, dst_context |-> EmptyContext,
     class_skeleton |-> {}, contextual_dunder_methods |-> {},
     target_code |-> <<>>, names_left |-> <<>>,
     global_statements |-> <<>>, last_import_line |-> 0,
     dst_module_code |-> <<>>,
     new_collector |-> [assignments |-> EmptyMap, assignment_order |-> <<>>]]

\* the outcome of one step: the next position, the frame, and what is returned
Outcome(pos, frame, result) == [pc |-> pos, frame |-> frame, ret |-> result]

\* lines 267-295, one statement of add_global_assignments at a time
MergeStep(call, pos, f) ==
    IF pos = "start"
        THEN LET m == ParseModule(call.what) IN
             IF ~m.ok THEN Outcome("raised", f, <<>>)
             ELSE Outcome("find_last",
                          [f EXCEPT !.global_statements = GlobalStatementsOf(m.body),
                                    !.dst_module_code = call.where], <<>>)
    ELSE IF pos = "find_last"
        THEN LET m == ParseModule(f.dst_module_code) IN
             IF ~m.ok THEN Outcome("raised", f, <<>>)
             ELSE Outcome("insert",
                          [f EXCEPT !.last_import_line = LastImportLineOf(m.body)], <<>>)
    ELSE IF pos = "insert"
        THEN LET m == ParseModule(f.dst_module_code) IN
             Outcome("collect",
                     [f EXCEPT !.dst_module_code =
                         Code(InsertStatementsInto(m.body, f.global_statements,
                                                   f.last_import_line), 0)], <<>>)
    ELSE IF pos = "collect"
        THEN LET n == ParseModule(call.what) IN
             Outcome("transform", [f EXCEPT !.new_collector = AssignmentsOf(n.body)], <<>>)
    ELSE LET o == ParseModule(f.dst_module_code) IN
         Outcome("done", f,
                 Code(TransformAssignments(o.body, f.new_collector.assignments,
                                           f.new_collector.assignment_order), 0))

\* lines 308-364, one block of add_needed_imports_from_module at a time, called
\* without helper functions
ReconcileStep(call, pos, f) ==
    IF pos = "start"
        THEN IF ~call.what.ok THEN Outcome("raised", f, <<>>)
             ELSE Outcome("request",
                          [f EXCEPT !.dst_context = EmptyContext,
                                    !.gatherer = Gather(DeleteFutureAliased(call.what))], <<>>)
    ELSE IF pos = "request"
        THEN LET requested ==
                    f.gatherer.module_imports
                    \cup {i \in f.gatherer.object_mapping : ~SkippedObject(i)}
             IN  IF \E i \in requested : AddRaises(i)
                 THEN Outcome("done", f, call.where)
                 ELSE Outcome("request_aliases",
                              [f EXCEPT !.dst_context =
                                  RequestAddThenRemove(f.dst_context, requested)], <<>>)
    ELSE IF pos = "request_aliases"
        THEN LET requested == f.gatherer.module_aliases \cup f.gatherer.alias_mapping
             IN  IF \E i \in requested : AddRaises(i)
                 THEN Outcome("raised", f, <<>>)
                 ELSE Outcome("transform",
                              [f EXCEPT !.dst_context =
                                  RequestAddThenRemove(f.dst_context, requested)], <<>>)
    ELSE Outcome("done", f,
                 IF ~call.where.ok THEN call.where ELSE TransformModule(call.where, f.dst_context))

\* lines 383-386 and 439-483 of get_code, one turn of its loop at a time, for
\* requests that pass the guard of lines 373-381
ExtractStep(call, pos, f) ==
    IF pos = "start"
        THEN IF ~call.where.ok
             THEN Outcome("done", f, [none |-> TRUE, code |-> <<>>, dunders |-> {}])
             ELSE Outcome("find",
                          [f EXCEPT !.class_skeleton = {},
                                    !.contextual_dunder_methods = {},
                                    !.target_code = <<>>,
                                    !.names_left = QualifiedNameParts(call.what)], <<>>)
    ELSE IF f.names_left # <<>>
        THEN LET r == FindTarget(AstOf(call.where.items, 1), Head(f.names_left),
                                 f.class_skeleton, f.contextual_dunder_methods)
             IN  Outcome("find",
                         [f EXCEPT !.class_skeleton = r.skeleton,
                                   !.contextual_dunder_methods = r.dunders,
                                   !.target_code =
                                       IF r.found
                                       THEN @ \o TargetLines(r.node, LinesOf(call.where.items))
                                       ELSE @,
                                   !.names_left = Tail(@)], <<>>)
    ELSE Outcome("done", f,
                 IF f.target_code = <<>>
                 THEN [none |-> TRUE, code |-> <<>>, dunders |-> {}]
                 ELSE [none |-> FALSE,
                       code |-> ClassCode(Sorted(f.class_skeleton), LinesOf(call.where.items))
                                \o f.target_code,
                       dunders |-> f.contextual_dunder_methods])

\* one step of an invocation on the frame it works on
InvocationStep(call, pos, f) ==
    IF call.op = "merge" THEN MergeStep(call, pos, f)
    ELSE IF call.op = "reconcile" THEN ReconcileStep(call, pos, f)
    ELSE ExtractStep(call, pos, f)

\* every invocation working on the objects the first invocation constructed
FrameShared(p) == 1

\* lines 268-288, 312-327, 383-386: an invocation works on the objects it
\* constructed itself
FrameOf(p) == p

\* the texts the interleaved merges are given: new files and destinations
MergeCalls ==
    {MergeCall(Code(src, 0), Code(dst, 0)) :
        src \in {<<Line(<<Expr(1)>>, 0), Line(<<Assign(<<"x">>, 9), Expr(3)>>, 0)>>,
                 <<Line(<<Assign(<<"y">>, 6)>>, 0)>>},
        dst \in {<<Line(<<Import(1)>>, 0), Line(<<Assign(<<"x">>, 1)>>, 1)>>,
                 <<Line(<<Assign(<<"x", "y">>, 2)>>, 0)>>}}

\* the files the interleaved reconciliations are given
ReconcileCalls ==
    {ReconcileCall(ImportsFile(TRUE, 0, src, {}), dst) :
        src \in {{ImportOf("os", "", "o")},
                 {ImportOf("os", "", ""), ImportOf("pkg", "helper", "")}},
        dst \in {ImportsFile(TRUE, 1, {ImportOf("sys", "", "")},
                             {ImportOf("os", "", ""), ImportOf("pkg", "helper", "")}),
                 ImportsFile(TRUE, 0, {ImportOf("os", "", "")}, {ImportOf("os", "", "o")})}}

\* the requests and the files the interleaved extractions are given
ExtractCalls ==
    {ExtractCall(request, [ok |-> TRUE, items |-> items]) :
        request \in {<<Fto(NameM, <<Parent(NameA, "ClassDef")>>)>>,
                     <<Fto(NameEq, <<Parent(NameA, "ClassDef")>>),
                       Fto(NameM, <<Parent(NameA, "ClassDef")>>)>>},
        items \in {<<Decl("class", NameA, 0, 1,
                          <<Decl("doc", <<>>, 0, 1, <<>>), Decl("func", NameM, 1, 2, <<>>),
                            Decl("func", NameEq, 0, 2, <<>>)>>)>>,
                   <<Decl("func", NameF, 1, 2, <<>>),
                     Decl("class", NameA, 0, 1,
                          <<Decl("func", NameRepr, 1, 1, <<>>),
                            Decl("func", NameM, 0, 1, <<>>)>>)>>}}

InitInvocations ==
    /\ pc = "interleave"
    /\ invocations \in [Invocations -> MergeCalls \cup ReconcileCalls \cup ExtractCalls]
    /\ inv_pc = [p \in Invocations |-> "start"]
    /\ inv_ret = [p \in Invocations |-> <<>>]
    /\ frames = [p \in Invocations |-> EmptyFrame]
    /\ interleaved = FALSE
    /\ MergeIdle
    /\ ExtractIdle
    /\ ImportsIdle
    /\ FutureIdle
    /\ ScanIdle
    /\ WalkIdle
    /\ PrIdle
    /\ PatchesIdle

\* whether an invocation is past its first step and has not returned
UnderWay(p) == inv_pc[p] \notin {"start", "done", "raised"}

\* an invocation takes its next step while the others stand still
Step(p) ==
    /\ inv_pc[p] \notin {"done", "raised"}
    /\ LET r == InvocationStep(invocations[p], inv_pc[p], frames[FrameOf(p)])
       IN  /\ inv_pc' = [inv_pc EXCEPT ![p] = r.pc]
           /\ inv_ret' = [inv_ret EXCEPT ![p] = r.ret]
           /\ frames' = [frames EXCEPT ![FrameOf(p)] = r.frame]
    /\ interleaved' = (interleaved \/ \E q \in Invocations \ {p} : UnderWay(q))
    /\ UNCHANGED <<pc, notInvocationVars, invocations>>

\* a step of add_global_assignments
StepMerge == \E p \in Invocations : invocations[p].op = "merge" /\ Step(p)

\* a step of add_needed_imports_from_module
StepReconcile == \E p \in Invocations : invocations[p].op = "reconcile" /\ Step(p)

\* a step of get_code
StepExtract == \E p \in Invocations : invocations[p].op = "extract" /\ Step(p)

NextInvocations ==
    \/ StepMerge
    \/ StepReconcile
    \/ StepExtract

SpecInvocations == InitInvocations /\ [][NextInvocations]_vars

RECURSIVE RunAlone(_, _, _, _)
\* an invocation run from a position to its end with nothing else running
RunAlone(call, pos, f, result) ==
    IF pos \in {"done", "raised"} THEN <<pos, result>>
    ELSE LET r == InvocationStep(call, pos, f)
         IN  RunAlone(call, r.pc, r.frame, r.ret)

\* how an invocation ends, and what it returns, when it runs alone
Alone(call) == RunAlone(call, "start", EmptyFrame, <<>>)

\* C24: an invocation that has ended, however its steps were interleaved with
\* those of the other invocation, ended as it does when run alone and
\* returned the same result
C24_InvocationsIndependent ==
    \A p \in Invocations :
        inv_pc[p] \in {"done", "raised"} =>
            <<inv_pc[p], inv_ret[p]>> = Alone(invocations[p])

\* two invocations of one operation on different destinations have both
\* returned, different results, after their steps were interleaved
C24_Witness ==
    /\ interleaved
    /\ \A p \in Invocations : inv_pc[p] = "done"
    /\ invocations[1].op = invocations[2].op
    /\ invocations[1].where # invocations[2].where
    /\ inv_ret[1] # inv_ret[2]

-----------------------------------------------------------------------------
(* add_global_assignments applied to what it returned *)

\* C25: merging the new file into what the merge returned returns it
\* unchanged: merge(new, merge(new, dest)) = merge(new, dest)
C25_MergeIdempotent ==
    pc = "done" => Alone(MergeCall(src_module_code, ret)) = <<"done", ret>>

-----------------------------------------------------------------------------
(* the lines of the snippet get_code returns *)

\* whether no element of a sequence comes twice
NoRepeat(seq) == \A i, j \in DOMAIN seq : seq[i] = seq[j] => i = j

\* C26: no line of the file comes more than once in the snippet
C26_NoLineTwice ==
    (pc = "done" /\ ~get_code_ret.none) => NoRepeat(get_code_ret.code)

-----------------------------------------------------------------------------
(* add_needed_imports_from_module on a new file without imports *)

\* C27: when the new file holds no import statement and the destination
\* parses, the text returned is the destination, unchanged
C27_NoImportsDestinationUnchanged ==
    (/\ pc = "done"
     /\ src_imports_code.ok /\ src_imports_code.imports = {}
     /\ gatherer = EmptyGatherer
     /\ dst_imports_code.ok)
        => imports_ret = dst_imports_code

-----------------------------------------------------------------------------
(* The walk of a GlobalAssignmentCollector (lines 24-69) or of a
   GlobalAssignmentTransformer (lines 72-120) over a module, one visit_ or
   leave_ call at a time *)

\* a call the walk makes: visit_ or leave_ of a compound statement or of an
\* Else, or the call made for an Assign
WalkEvent(e, k, node) == [e |-> e, k |-> k, node |-> node]

RECURSIVE AssignEvents(_)
\* the calls made for the small statements of a SimpleStatementLine
AssignEvents(body) ==
    IF body = <<>> THEN <<>>
    ELSE (IF Head(body).t = "assign" THEN <<WalkEvent("assign", "", Head(body))>> ELSE <<>>)
         \o AssignEvents(Tail(body))

RECURSIVE EventsOf(_)
\* the calls a walk makes on the statements of a body, in order
EventsOf(stmts) ==
    IF stmts = <<>> THEN <<>>
    ELSE LET s == Head(stmts)
         IN  (IF s.k = "line" THEN AssignEvents(s.body)
              ELSE <<WalkEvent("visit", s.k, Expr(0))>>
                   \o EventsOf(s.body)
                   \o (IF s.orelse = <<>> THEN <<>>
                       ELSE <<WalkEvent("visit", "else", Expr(0))>> \o EventsOf(s.orelse))
                   \o <<WalkEvent("leave", s.k, Expr(0))>>)
             \o EventsOf(Tail(stmts))

\* lines 35-37 and 83-84: visit_FunctionDef
VisitFunctionDef(st) == [st EXCEPT !.scope_depth = @ + 1]

\* lines 39-40 and 86-88: leave_FunctionDef
LeaveFunctionDef(st) == [st EXCEPT !.scope_depth = @ - 1]

\* lines 42-44 and 90-91: visit_ClassDef
VisitClassDef(st) == [st EXCEPT !.scope_depth = @ + 1]

\* lines 46-47 and 93-95: leave_ClassDef
LeaveClassDef(st) == [st EXCEPT !.scope_depth = @ - 1]

\* lines 49-51 and 97-98: visit_If
VisitIf(st) == [st EXCEPT !.if_else_depth = @ + 1]

\* lines 53-54 and 100-102: leave_If
LeaveIf(st) == [st EXCEPT !.if_else_depth = @ - 1]

\* visit_Else counting the else block as one more level
VisitElseCounted(st) == [st EXCEPT !.if_else_depth = @ + 1]

\* lines 56-58 and 104-106: visit_Else
VisitElse(st) == st

\* the statements a walked module is made of: assignments at the top level,
\* in a for with an else, in a def, in an if inside a class, in a for inside
\* an if with an if in its else, and in a for and a def inside a for
WalkStatements ==
    { Line(<<Assign(<<"x">>, 1)>>, 0),
      Block("for", <<Line(<<Assign(<<"x">>, 2)>>, 0)>>, <<Line(<<Assign(<<"y">>, 3)>>, 0)>>),
      Block("def", <<Line(<<Assign(<<"x">>, 4)>>, 0)>>, <<>>),
      Block("class", <<Block("if", <<Line(<<Assign(<<"y">>, 5)>>, 0)>>,
                                   <<Line(<<Assign(<<"x">>, 6)>>, 0)>>)>>, <<>>),
      Block("if", <<Block("for", <<Line(<<Assign(<<"x">>, 7)>>, 0)>>, <<>>)>>,
                  <<Block("if", <<Line(<<Assign(<<"y">>, 8)>>, 0)>>, <<>>)>>),
      Block("for", <<Block("for", <<Line(<<Assign(<<"o.a", "y">>, 9)>>, 0)>>, <<>>),
                     Block("def", <<Line(<<Assign(<<"x">>, 10)>>, 0)>>, <<>>)>>, <<>>) }

\* new_assignments given to the transformer
WalkNewAssignments == ("x" :> Assign(<<"x">>, 11)) @@ ("y" :> Assign(<<"y">>, 12))

InitWalk ==
    /\ pc = "walk"
    /\ walk_visitor \in {"collector", "transformer"}
    /\ walk_events \in {EventsOf(body) : body \in Seqs(WalkStatements, MaxWalkLen)}
    /\ walk_st = [assignments |-> EmptyMap, assignment_order |-> <<>>,
                  processed_assignments |-> {}, scope_depth |-> 0, if_else_depth |-> 0]
    /\ walk_new = IF walk_visitor = "transformer" THEN WalkNewAssignments ELSE EmptyMap
    /\ walk_open = <<>>
    /\ walk_log = <<>>
    /\ MergeIdle
    /\ ExtractIdle
    /\ ImportsIdle
    /\ FutureIdle
    /\ ScanIdle
    /\ InvocationsIdle
    /\ PrIdle
    /\ PatchesIdle

\* whether the next call of the walk is this one
NextCall(e, kinds) ==
    /\ pc = "walk"
    /\ walk_events # <<>>
    /\ Head(walk_events).e = e
    /\ Head(walk_events).k \in kinds

\* the walk enters a compound statement or an Else
Enter(st) ==
    /\ walk_st' = st
    /\ walk_events' = Tail(walk_events)
    /\ walk_open' = IF Head(walk_events).k = "else" THEN walk_open
                    ELSE Append(walk_open, Head(walk_events).k)
    /\ UNCHANGED <<pc, notWalkVars, walk_visitor, walk_new, walk_log>>

\* the walk leaves a compound statement
Leave(st) ==
    /\ walk_st' = st
    /\ walk_events' = Tail(walk_events)
    /\ walk_open' = SubSeq(walk_open, 1, Len(walk_open) - 1)
    /\ UNCHANGED <<pc, notWalkVars, walk_visitor, walk_new, walk_log>>

WalkVisitFunctionDef == NextCall("visit", {"def"}) /\ Enter(VisitFunctionDef(walk_st))

WalkLeaveFunctionDef == NextCall("leave", {"def"}) /\ Leave(LeaveFunctionDef(walk_st))

WalkVisitClassDef == NextCall("visit", {"class"}) /\ Enter(VisitClassDef(walk_st))

WalkLeaveClassDef == NextCall("leave", {"class"}) /\ Leave(LeaveClassDef(walk_st))

WalkVisitIf == NextCall("visit", {"if"}) /\ Enter(VisitIf(walk_st))

WalkLeaveIf == NextCall("leave", {"if"}) /\ Leave(LeaveIf(walk_st))

WalkVisitElse == NextCall("visit", {"else"}) /\ Enter(VisitElse(walk_st))

\* For, While, With and Try: neither class defines a visit_ or a leave_ for them
WalkVisitOther == NextCall("visit", {"for"}) /\ Enter(walk_st)

WalkLeaveOther == NextCall("leave", {"for"}) /\ Leave(walk_st)

\* lines 60-69: visit_Assign of the collector
WalkVisitAssign ==
    /\ NextCall("assign", {""})
    /\ walk_visitor = "collector"
    /\ LET node == Head(walk_events).node
           st == CollectorAssign(node, walk_st)
       IN  /\ walk_st' = st
           /\ walk_log' = Append(walk_log,
                  [node |-> node, open |-> walk_open,
                   done |-> \A i \in DOMAIN node.targets :
                               IsName(node.targets[i]) =>
                                  /\ node.targets[i] \in DOMAIN st.assignments
                                  /\ st.assignments[node.targets[i]] = node])
    /\ walk_events' = Tail(walk_events)
    /\ UNCHANGED <<pc, notWalkVars, walk_visitor, walk_new, walk_open>>

\* lines 108-120: leave_Assign of the transformer
WalkLeaveAssign ==
    /\ NextCall("assign", {""})
    /\ walk_visitor = "transformer"
    /\ LET node == Head(walk_events).node
           r == LeaveAssign(node, walk_st, walk_new)
       IN  /\ walk_st' = r.st
           /\ walk_log' = Append(walk_log,
                  [node |-> node, open |-> walk_open,
                   done |-> \E i \in DOMAIN node.targets :
                               /\ IsName(node.targets[i])
                               /\ node.targets[i] \in DOMAIN walk_new
                               /\ r.node = walk_new[node.targets[i]]])
    /\ walk_events' = Tail(walk_events)
    /\ UNCHANGED <<pc, notWalkVars, walk_visitor, walk_new, walk_open>>

NextWalk ==
    \/ WalkVisitFunctionDef
    \/ WalkLeaveFunctionDef
    \/ WalkVisitClassDef
    \/ WalkLeaveClassDef
    \/ WalkVisitIf
    \/ WalkLeaveIf
    \/ WalkVisitElse
    \/ WalkVisitOther
    \/ WalkLeaveOther
    \/ WalkVisitAssign
    \/ WalkLeaveAssign

SpecWalk == InitWalk /\ [][NextWalk]_vars

\* how many of the compound statements the walk is inside of are of these kinds
OpenOf(kinds) == Cardinality({i \in DOMAIN walk_open : walk_open[i] \in kinds})

\* C28: during a walk scope_depth is the number of enclosing functions and
\* classes and if_else_depth the number of enclosing ifs, so neither is ever
\* negative and both are 0 when the walk ends; and an assignment to a name
\* met inside for, while, with or try statements only is handled as a global
\* one: the collector registers it, the transformer replaces it
C28_DepthCounters ==
    pc = "walk" =>
        /\ walk_st.scope_depth = OpenOf({"def", "class"})
        /\ walk_st.if_else_depth = OpenOf({"if"})
        /\ walk_st.scope_depth >= 0 /\ walk_st.if_else_depth >= 0
        /\ walk_events = <<>> => walk_st.scope_depth = 0 /\ walk_st.if_else_depth = 0
        /\ \A i \in DOMAIN walk_log :
              LET l == walk_log[i] IN
              (/\ \A j \in DOMAIN l.open : l.open[j] = "for"
               /\ \E t \in DOMAIN l.node.targets : IsName(l.node.targets[t]))
                  => l.done

\* a walk that ended after it met an assignment inside a for inside a for,
\* handled as a global one, and an assignment inside an if, left alone
C28_Witness ==
    /\ pc = "walk"
    /\ walk_events = <<>>
    /\ \E i \in DOMAIN walk_log :
          walk_log[i].open = <<"for", "for">> /\ walk_log[i].done
    /\ \E i \in DOMAIN walk_log :
          walk_log[i].open # <<>> /\ walk_log[i].open[1] = "if" /\ ~walk_log[i].done

-----------------------------------------------------------------------------
(* check_create_pr, src/codeflash/result/create_pr.py lines 129-234 *)

\* a path of original_code with what is_zero_diff(original_code[p], new_code[p]) returns
CodeFile(path, zero_diff) == [path |-> path, zero_diff |-> zero_diff]

\* a request made through cfapi
ApiRequest(kind, number, files) == [kind |-> kind, pr_number |-> number, files |-> files]

\* lines 191-196: the paths of all files of original_code
AllFiles(code) == {f.path : f \in code}

\* the comprehension of lines 145-151 without its condition
EveryFile(code) == {f.path : f \in code}

\* lines 145-151: the paths of the files that is_zero_diff does not hold for
ChangedFiles(code) == {f.path : f \in {g \in code : ~g.zero_diff}}

InitPr ==
    /\ pc = "pr_start"
    /\ pr_number \in {None, Some(0), Some(7)}
    /\ repo_found \in BOOLEAN
    /\ \E paths \in SUBSET (1..MaxFiles) :
          original_code \in {{CodeFile(q, zero[q]) : q \in paths} : zero \in [paths -> BOOLEAN]}
    /\ push_succeeds \in BOOLEAN
    /\ branch_pushed = FALSE
    /\ build_file_changes = {}
    /\ api_requests = <<>>
    /\ MergeIdle
    /\ ExtractIdle
    /\ ImportsIdle
    /\ FutureIdle
    /\ ScanIdle
    /\ InvocationsIdle
    /\ WalkIdle
    /\ PatchesIdle

\* lines 139-142 and 183: the PR number is read, the repository is opened
\* (git.Repo raises when there is none) and the branch is taken
GetPrNumber ==
    /\ pc = "pr_start"
    /\ pc' = IF ~repo_found THEN "raised"
             ELSE IF ~pr_number.none THEN "suggest_build"
             ELSE "push"
    /\ UNCHANGED <<notPrVars, prVars>>

\* lines 143-155: the changes to suggest are built; there may be none
BuildSuggestedChanges ==
    /\ pc = "suggest_build"
    /\ build_file_changes' = ChangedFiles(original_code)
    /\ pc' = IF ChangedFiles(original_code) = {} THEN "returned" ELSE "suggest"
    /\ UNCHANGED <<notPrVars, pr_number, repo_found, original_code, push_succeeds,
                   branch_pushed, api_requests>>

\* lines 156-182: cfapi.suggest_changes; the response is logged
SuggestChanges ==
    /\ pc = "suggest"
    /\ api_requests' = Append(api_requests,
                              ApiRequest("suggest_changes", pr_number, build_file_changes))
    /\ pc' = "returned"
    /\ UNCHANGED <<notPrVars, pr_number, repo_found, original_code, push_succeeds,
                   branch_pushed, build_file_changes>>

\* lines 184-191: check_and_push_branch; the call returns when it fails
CheckAndPushBranch ==
    /\ pc = "push"
    /\ branch_pushed' = push_succeeds
    /\ pc' = IF push_succeeds THEN "create" ELSE "returned"
    /\ UNCHANGED <<notPrVars, pr_number, repo_found, original_code, push_succeeds,
                   build_file_changes, api_requests>>

\* lines 192-234: the changes of all files are built and cfapi.create_pr is
\* called; the response is logged
CreatePr ==
    /\ pc = "create"
    /\ build_file_changes' = AllFiles(original_code)
    /\ api_requests' = Append(api_requests,
                              ApiRequest("create_pr", pr_number, AllFiles(original_code)))
    /\ pc' = "returned"
    /\ UNCHANGED <<notPrVars, pr_number, repo_found, original_code, push_succeeds,
                   branch_pushed>>

NextPr ==
    \/ GetPrNumber
    \/ BuildSuggestedChanges
    \/ SuggestChanges
    \/ CheckAndPushBranch
    \/ CreatePr

SpecPr == InitPr /\ [][NextPr]_vars

\* the paths of the files with a non-zero diff
NonZeroDiff == {f.path : f \in {g \in original_code : ~g.zero_diff}}

\* C29: a call makes at most one API request; a suggest_changes request is
\* made only with a PR number set and some file of non-zero diff, and holds
\* exactly these files; a create_pr request is made only with no PR number
\* set and after check_and_push_branch succeeded; a call that returns in any
\* other case has made no request
C29_AtMostOneRequest ==
    /\ Len(api_requests) <= 1
    /\ \A i \in DOMAIN api_requests :
          LET r == api_requests[i] IN
          /\ r.kind = "suggest_changes" =>
                ~pr_number.none /\ NonZeroDiff # {} /\ r.files = NonZeroDiff
          /\ r.kind = "create_pr" => pr_number.none /\ branch_pushed
    /\ pc = "returned" =>
          (api_requests # <<>> <=>
              \/ ~pr_number.none /\ NonZeroDiff # {}
              \/ pr_number.none /\ push_succeeds)

\* a call has returned after it suggested the one changed file of two to PR 0
C29_Witness ==
    /\ pc = "returned"
    /\ pr_number = Some(0)
    /\ Len(api_requests) = 1
    /\ api_requests[1].kind = "suggest_changes"
    /\ Cardinality(api_requests[1].files) = 1
    /\ Cardinality(original_code) = 2

-----------------------------------------------------------------------------
(* The deterministic patches of time, uuid, random and os,
   src/tests/test_pytest_plugin_deterministic_patches.py lines 55-108 *)

\* a float of seconds: fixed_timestamp plus a number of steps of 0.001
Timestamp(steps) == [seconds |-> "1609459200.0", steps |-> steps]

\* line 52
fixed_timestamp == Timestamp(0)

\* line 54
fixed_uuid == "12345678-1234-5678-9abc-123456789012"

\* line 57
perf_counter_start == fixed_timestamp

\* a call that returns a value
Returns(value) == [raised |-> FALSE, value |-> value]

\* a call that the original function leaves with an exception
RaisesError(empty) == [raised |-> TRUE, value |-> empty]

\* lines 60-63
mock_time_time == Returns(fixed_timestamp)

\* mock_perf_counter returning the counter before it is incremented
mock_perf_counter_stale(calls) ==
    [calls |-> calls + 1,
     result |-> Returns(Timestamp(perf_counter_start.steps + calls))]

\* lines 65-70: the counter after the call, and what is returned
mock_perf_counter(calls) ==
    [calls |-> calls + 1,
     result |-> Returns(Timestamp(perf_counter_start.steps + (calls + 1)))]

\* lines 72-75
mock_uuid4 == Returns(fixed_uuid)

\* lines 77-80: original_uuid1(node, clock_seq) raises ValueError for a node
\* that is no 48-bit value
mock_uuid1(node, clock_seq) ==
    IF ~node.none /\ node.n < 0 THEN RaisesError("")
    ELSE Returns(fixed_uuid)

\* lines 82-85
mock_random == Returns("0.123456789")

\* lines 87-90: original_os_urandom(n) raises ValueError for a negative n
mock_urandom(n) ==
    IF n < 0 THEN RaisesError(<<>>)
    ELSE Returns([i \in 1..n |-> 66])

\* a call in the log
PatchedCall(fn, args, result) ==
    [fn |-> fn, args |-> args, raised |-> result.raised, value |-> result.value]

InitPatches ==
    /\ pc = "patched"
    /\ perf_counter_calls = 0
    /\ call_log = <<>>
    /\ MergeIdle
    /\ ExtractIdle
    /\ ImportsIdle
    /\ FutureIdle
    /\ ScanIdle
    /\ InvocationsIdle
    /\ WalkIdle
    /\ PrIdle

\* a call of a patched function that leaves perf_counter_calls alone
Called(fn, args, result) ==
    /\ Len(call_log) < MaxPatchedCalls
    /\ call_log' = Append(call_log, PatchedCall(fn, args, result))
    /\ UNCHANGED <<pc, notPatchVars, perf_counter_calls>>

\* time.time()
CallTimeTime ==
    /\ pc = "patched"
    /\ Called("time", <<>>, mock_time_time)

\* time.perf_counter()
CallPerfCounter ==
    /\ pc = "patched"
    /\ Len(call_log) < MaxPatchedCalls
    /\ LET r == mock_perf_counter(perf_counter_calls)
       IN  /\ perf_counter_calls' = r.calls
           /\ call_log' = Append(call_log, PatchedCall("perf_counter", <<>>, r.result))
    /\ UNCHANGED <<pc, notPatchVars>>

\* uuid.uuid4()
CallUuid4 ==
    /\ pc = "patched"
    /\ Called("uuid4", <<>>, mock_uuid4)

\* uuid.uuid1(node, clock_seq)
CallUuid1 ==
    /\ pc = "patched"
    /\ \E node \in {None, Some(5), Some(-1)}, clock_seq \in {None, Some(1)} :
          Called("uuid1", <<node, clock_seq>>, mock_uuid1(node, clock_seq))

\* random.random()
CallRandom ==
    /\ pc = "patched"
    /\ Called("random", <<>>, mock_random)

\* os.urandom(n)
CallUrandom ==
    /\ pc = "patched"
    /\ \E n \in -1..MaxBytes : Called("urandom", <<n>>, mock_urandom(n))

NextPatches ==
    \/ CallTimeTime
    \/ CallPerfCounter
    \/ CallUuid4
    \/ CallUuid1
    \/ CallRandom
    \/ CallUrandom

SpecPatches == InitPatches /\ [][NextPatches]_vars

\* how many of the first i calls were calls of time.perf_counter
PerfCounterCallsUpTo(i) ==
    Cardinality({j \in 1..i : call_log[j].fn = "perf_counter"})

\* the k-th call of time.perf_counter returned the start plus k steps of
\* 0.001, whatever was called in between
PerfCounterCounts ==
    \A i \in DOMAIN call_log :
        call_log[i].fn = "perf_counter" =>
            /\ ~call_log[i].raised
            /\ call_log[i].value = Timestamp(perf_counter_start.steps + PerfCounterCallsUpTo(i))

\* C30 as stated: time.perf_counter counts its calls, and every call of
\* another patched function returns, and returns what every other call of
\* that function returned, whatever its arguments
C30_FixedWhateverArguments ==
    /\ PerfCounterCounts
    /\ \A i, j \in DOMAIN call_log :
          (call_log[i].fn = call_log[j].fn /\ call_log[i].fn # "perf_counter") =>
              /\ ~call_log[i].raised
              /\ call_log[i].value = call_log[j].value

\* C30: time.perf_counter counts its calls; time.time, uuid.uuid4 and
\* random.random return their fixed value on every call; uuid.uuid1 returns
\* the fixed UUID for arguments the original accepts; os.urandom(n) returns n
\* bytes 0x42 for n >= 0, the same value for the same n
C30_FixedForAcceptedArguments ==
    /\ PerfCounterCounts
    /\ \A i \in DOMAIN call_log :
          LET c == call_log[i] IN
          /\ c.fn = "time" => ~c.raised /\ c.value = fixed_timestamp
          /\ c.fn = "uuid4" => ~c.raised /\ c.value = fixed_uuid
          /\ c.fn = "random" => ~c.raised /\ c.value = "0.123456789"
          /\ (c.fn = "uuid1" /\ (c.args[1].none \/ c.args[1].n >= 0)) =>
                ~c.raised /\ c.value = fixed_uuid
          /\ (c.fn = "urandom" /\ c.args[1] >= 0) =>
                /\ ~c.raised
                /\ Len(c.value) = c.args[1]
                /\ \A b \in DOMAIN c.value : c.value[b] = 66

\* time.perf_counter was called, then os.urandom for two bytes, then
\* time.perf_counter again
C30_Witness ==
    /\ Len(call_log) >= 3
    /\ call_log[1].fn = "perf_counter"
    /\ call_log[2].fn = "urandom" /\ call_log[2].args = <<2>>
    /\ call_log[3].fn = "perf_counter"
    /\ call_log[3].value = Timestamp(2)

=============================================================================
